---- MODULE Spec2Model ----
(***************************************************************************)
(* Model of the metadata quality scoring engine (src/src/api): the metric  *)
(* catalogue of config.py, the global MetricRegistry, the checkers, and    *)
(* the evaluation pipeline of validators.py (validate_metadata_quality and *)
(* validate_metadata_from_content).                                        *)
(*                                                                         *)
(* Numbers that Python computes as floats (percentage, points, dimension   *)
(* sums) are modelled as exact fractions <<numerator, denominator>>.       *)
(***************************************************************************)
EXTENDS Integers, Sequences, FiniteSets, TLC

(***************************************************************************)
(* Bounds of the model.                                                    *)
(***************************************************************************)
\* largest number of typed resources in an input graph
MaxRes == 2
\* largest number of departures of the environment from "no check() raises and the
\* graph conforms to the shapes" in one evaluation
MaxDeviations == 1
\* largest number of property triples of a resource in the graphs of SpecCheck
MaxTriples == 2

(***************************************************************************)
(* Generic helpers.                                                        *)
(***************************************************************************)
\* Op applied to the value of v (v is evaluated once, before Op is applied)
Bind(v, Op(_)) == CHOOSE r \in {Op(x) : x \in {v}} : TRUE
Bind2(v, w, Op(_, _)) == CHOOSE r \in {Op(x, y) : x \in {v}, y \in {w}} : TRUE

RECURSIVE SumUpTo(_, _)
SumUpTo(s, n) == IF n = 0 THEN 0 ELSE s[n] + SumUpTo(s, n - 1)

\* the sum of a list of integers
SeqSum(s) == Bind(s, LAMBDA v : SumUpTo(v, Len(v)))

RECURSIVE SeqOfSet(_)
\* the elements of a finite set of integers as an ascending list
SeqOfSet(S) ==
    IF S = {} THEN <<>>
    ELSE LET m == CHOOSE x \in S : \A y \in S : x <= y
         IN  <<m>> \o SeqOfSet(S \ {m})

RECURSIVE ListOfSet(_)
\* the elements of a finite set as a list, in some fixed order
ListOfSet(S) ==
    IF S = {} THEN <<>>
    ELSE LET m == CHOOSE x \in S : TRUE
         IN  <<m>> \o ListOfSet(S \ {m})

Range(s) == {s[i] : i \in 1..Len(s)}

RECURSIVE SubsetsUpTo(_, _)
\* the subsets of S with at most k elements
SubsetsUpTo(S, k) ==
    IF k = 0 THEN {{}}
    ELSE Bind(SubsetsUpTo(S, k - 1), LAMBDA prev : prev \cup {T \cup {x} : T \in prev, x \in S})

RECURSIVE Gcd(_, _)
Gcd(a, b) == IF b = 0 THEN a ELSE Gcd(b, a % b)

\* the fraction n/d (d > 0, n >= 0) in lowest terms
Frac(n, d) == LET k == Gcd(n, d) IN <<n \div k, d \div k>>
FracAdd(x, y) == Frac(x[1] * y[2] + y[1] * x[2], x[2] * y[2])
FracLeq(x, y) == x[1] * y[2] <= y[1] * x[2]

(***************************************************************************)
(* config.py: dimensions, metric catalogue, maxima, thresholds.            *)
(***************************************************************************)
Dimensions ==
    <<"findability", "accessibility", "interoperability", "reusability", "contextuality">>

Metric(id, dim, w) == [id |-> id, dimension |-> dim, weight |-> w]

COMMON_METRICS == <<
    Metric("dcat_keyword", "findability", 30),
    Metric("dcat_theme", "findability", 30),
    Metric("dct_spatial", "findability", 20),
    Metric("dct_temporal", "findability", 20),
    Metric("dcat_accessURL_status", "accessibility", 50),
    Metric("dct_format", "interoperability", 20),
    Metric("dcat_mediaType", "interoperability", 10),
    Metric("dcat_byteSize", "contextuality", 5),
    Metric("dct_issued", "contextuality", 5),
    Metric("dct_modified", "contextuality", 5) >>

DCAT_COMMON_METRICS == <<
    Metric("dcat_downloadURL", "accessibility", 20),
    Metric("dcat_downloadURL_status", "accessibility", 30),
    Metric("dct_format_vocabulary", "interoperability", 5),
    Metric("dct_mediaType_vocabulary", "interoperability", 5),
    Metric("dct_format_nonproprietary", "interoperability", 20),
    Metric("dct_format_machinereadable", "interoperability", 20),
    Metric("dct_license", "reusability", 20),
    Metric("dct_license_vocabulary", "reusability", 10),
    Metric("dct_accessRights", "reusability", 10),
    Metric("dct_accessRights_vocabulary", "reusability", 5),
    Metric("dcat_contactPoint", "reusability", 20),
    Metric("dct_publisher", "reusability", 10),
    Metric("dct_rights", "contextuality", 5) >>

DCAT_AP_ES_SPECIFIC_METRICS == << Metric("dcat_ap_es_compliance", "interoperability", 30) >>

DCAT_AP_SPECIFIC_METRICS == << Metric("dcat_ap_compliance", "interoperability", 30) >>

\* the nti_risp list with the weight of the compliance metric changed
NTI_RISP_SPECIFIC_METRICS_Reweighted == <<
    Metric("dct_format_vocabulary_nti_risp", "interoperability", 5),
    Metric("dct_format_nonproprietary", "interoperability", 20),
    Metric("dct_format_machinereadable", "interoperability", 20),
    Metric("nti_risp_compliance", "interoperability", 40),
    Metric("dct_license", "reusability", 20),
    Metric("dct_license_vocabulary", "reusability", 10),
    Metric("dct_publisher", "reusability", 10) >>

NTI_RISP_SPECIFIC_METRICS == <<
    Metric("dct_format_vocabulary_nti_risp", "interoperability", 5),
    Metric("dct_format_nonproprietary", "interoperability", 20),
    Metric("dct_format_machinereadable", "interoperability", 20),
    Metric("nti_risp_compliance", "interoperability", 30),
    Metric("dct_license", "reusability", 20),
    Metric("dct_license_vocabulary", "reusability", 10),
    Metric("dct_publisher", "reusability", 10) >>

ProfileNames == {"dcat_ap", "dcat_ap_es", "nti_risp"}

METRICS_BY_PROFILE == [p \in ProfileNames |->
    CASE p = "dcat_ap"    -> COMMON_METRICS \o DCAT_COMMON_METRICS \o DCAT_AP_SPECIFIC_METRICS
      [] p = "dcat_ap_es" -> COMMON_METRICS \o DCAT_COMMON_METRICS \o DCAT_AP_ES_SPECIFIC_METRICS
      [] p = "nti_risp"   -> COMMON_METRICS \o NTI_RISP_SPECIFIC_METRICS]

DEFAULT_METRICS == METRICS_BY_PROFILE["dcat_ap_es"]

\* a lookup that hands out the default list whatever the profile
MetricsOfProfile_AlwaysDefault(profile) == DEFAULT_METRICS

\* METRICS_BY_PROFILE.get(profile, DEFAULT_METRICS)
MetricsOfProfile(profile) ==
    IF profile \in ProfileNames THEN METRICS_BY_PROFILE[profile] ELSE DEFAULT_METRICS

MAX_SCORES == [p \in ProfileNames |->
    CASE p = "dcat_ap" -> 405 [] p = "dcat_ap_es" -> 405 [] p = "nti_risp" -> 310]

DimMax(f, a, i, r, c) ==
    [findability |-> f, accessibility |-> a, interoperability |-> i,
     reusability |-> r, contextuality |-> c]

DIMENSION_MAX_SCORES == [p \in ProfileNames |->
    CASE p = "dcat_ap"    -> DimMax(100, 100, 110, 75, 20)
      [] p = "dcat_ap_es" -> DimMax(100, 100, 110, 75, 20)
      [] p = "nti_risp"   -> DimMax(100, 50, 105, 40, 15)]

Thresholds(e, g, s) == [excellent |-> e, good |-> g, sufficient |-> s]

\* config.py RATING_THRESHOLDS (the dcat_ap_es entry of the config table)
RATING_THRESHOLDS == Thresholds(351, 221, 121)

\* config.py RATING_THRESHOLDS_BY_PROFILE (not the table determine_rating reads)
ConfigRATING_THRESHOLDS_BY_PROFILE == [p \in ProfileNames |->
    CASE p = "dcat_ap"    -> Thresholds(351, 221, 121)
      [] p = "dcat_ap_es" -> Thresholds(351, 221, 121)
      [] p = "nti_risp"   -> Thresholds(264, 166, 91)]

(***************************************************************************)
(* validators.py module level: its own MAX_SCORES and thresholds.          *)
(***************************************************************************)
calculate_max_score(metrics) == SeqSum([i \in 1..Len(metrics) |-> metrics[i].weight])

ValidatorsMAX_SCORES == [p \in ProfileNames |->
    CASE p = "dcat_ap" -> 405 [] p = "dcat_ap_es" -> 405
      [] p = "nti_risp" -> calculate_max_score(METRICS_BY_PROFILE["nti_risp"])]

\* int(x * 0.8), int(x * 0.6), int(x * 0.4): truncation of the scaled maximum
IntTenths(x, tenths) == (x * tenths) \div 10

\* the table determine_rating reads
RATING_THRESHOLDS_BY_PROFILE == [p \in ProfileNames |->
    CASE p = "dcat_ap"    -> Thresholds(351, 221, 121)
      [] p = "dcat_ap_es" -> Thresholds(351, 221, 121)
      [] p = "nti_risp"   -> Thresholds(IntTenths(ValidatorsMAX_SCORES["nti_risp"], 8),
                                        IntTenths(ValidatorsMAX_SCORES["nti_risp"], 6),
                                        IntTenths(ValidatorsMAX_SCORES["nti_risp"], 4))]

(***************************************************************************)
(* MetricRegistry: metrics is an insertion-ordered dict (a list of metric  *)
(* records with distinct ids), checkers a dict id -> checker.              *)
(***************************************************************************)
MetricIds(metrics) == {metrics[i].id : i \in 1..Len(metrics)}

EmptyCheckers == [x \in {} |-> 0]

\* MetricRegistry.__init__
NewRegistry == [metrics |-> <<>>, checkers |-> EmptyCheckers]

\* MetricRegistry.register_metric: a dict assignment (a known id keeps its place)
register_metric(reg, metric_id, dimension, weight) ==
    LET m == Metric(metric_id, dimension, weight)
    IN  [reg EXCEPT !.metrics =
            IF metric_id \in MetricIds(reg.metrics)
            THEN [i \in 1..Len(reg.metrics) |->
                    IF reg.metrics[i].id = metric_id THEN m ELSE reg.metrics[i]]
            ELSE Append(reg.metrics, m)]

\* a register_checker that accepts every id
register_checker_raises_Never(reg, metric_id) == FALSE

\* the condition under which MetricRegistry.register_checker raises ValueError
register_checker_raises(reg, metric_id) == metric_id \notin MetricIds(reg.metrics)

\* MetricRegistry.register_checker: the registry after the call (unchanged when it raises)
register_checker(reg, metric_id, checker) ==
    IF register_checker_raises(reg, metric_id)
    THEN reg
    ELSE [reg EXCEPT !.checkers =
            [x \in (DOMAIN reg.checkers) \cup {metric_id} |->
                IF x = metric_id THEN checker ELSE reg.checkers[x]]]

\* MetricRegistry.get_checker: None is modelled by the value NoChecker
NoChecker == [cls |-> "None"]
get_checker(reg, metric_id) ==
    IF metric_id \in DOMAIN reg.checkers THEN reg.checkers[metric_id] ELSE NoChecker

\* MetricRegistry.get_all_metrics
get_all_metrics(reg) == reg.metrics

RECURSIVE RegisterMetricsLoop(_, _)
RegisterMetricsLoop(reg, todo) ==
    IF todo = <<>> THEN reg
    ELSE Bind2(register_metric(reg, Head(todo).id, Head(todo).dimension, Head(todo).weight),
               Tail(todo),
               LAMBDA r, t : RegisterMetricsLoop(r, t))

\* register_standard_metrics(profile): clears registry.metrics, then registers the profile's list
register_standard_metrics(reg, profile) ==
    RegisterMetricsLoop([reg EXCEPT !.metrics = <<>>], MetricsOfProfile(profile))

\* the global registry after the module has been imported
ImportedRegistry == register_standard_metrics(NewRegistry, "dcat_ap_es")

(***************************************************************************)
(* The RDF graph.  A graph is a list of typed resources; resource i is the *)
(* position i, g[i].types its rdf:type values among dcat:Dataset and       *)
(* dcat:Distribution, g[i].pv the set of its <<property, value>> triples.  *)
(* A value is a URI, a literal or a blank node; labels are the rdfs:label  *)
(* literals the graph holds for that value node.                           *)
(***************************************************************************)
Uri(text, labels) == [kind |-> "uri", text |-> text, labels |-> labels]
Lit(text) == [kind |-> "literal", text |-> text, labels |-> {}]
BNode(text, labels) == [kind |-> "bnode", text |-> text, labels |-> labels]

Node(types, pv) == [types |-> types, pv |-> pv]

\* g.subjects(RDF.type, entity_type)
Subjects(g, entity_type) == {i \in 1..Len(g) : entity_type \in g[i].types}

\* the values of g.triples((res, prop, None))
Values(g, res, prop) == {t[2] : t \in {x \in g[res].pv : x[1] = prop}}

\* len(g): type triples and property triples
GraphLen(g) == SeqSum([i \in 1..Len(g) |-> Cardinality(g[i].types) + Cardinality(g[i].pv)])

(***************************************************************************)
(* Environment of the checkers: the vocabulary files (docs/vocabularies),  *)
(* the HTTP probe layer and the shape-conformance engine.                  *)
(***************************************************************************)
\* first column of each vocabulary CSV: the allowed URIs
VocabUris(vocab) ==
    CASE vocab = "access_rights"    -> {"http://x/ar/PUBLIC", "http://x/ar/RESTRICTED"}
      [] vocab = "file_types"       -> {"http://x/ft/CSV", "http://x/ft/XLS"}
      [] vocab = "media_types"      -> {"http://x/mt/text-csv"}
      [] vocab = "non_proprietary"  -> {"http://x/ft/CSV"}
      [] vocab = "machine_readable" -> {"http://x/ft/CSV", "http://x/ft/XLS"}
      [] vocab = "license"          -> {"http://x/lic/CC0"}
      [] OTHER -> {}

\* the label_es column of file_types.csv
VocabLabels(vocab) ==
    CASE vocab = "file_types" -> {"CSV", "Excel XLS"}
      [] OTHER -> {}

\* str.lower() on the strings of the model
Lower(text) ==
    CASE text = "CSV" -> "csv"
      [] text = "Csv" -> "csv"
      [] text = "Excel XLS" -> "excel xls"
      [] text = "Comma" -> "comma"
      [] text = "http://x/ft/CSV" -> "http://x/ft/csv"
      [] text = "http://x/ft/XLS" -> "http://x/ft/xls"
      [] text = "http://x/ft/PDF" -> "http://x/ft/pdf"
      [] OTHER -> text

\* Python's `label in text` (substring) on the lower-cased strings of the model
IsSubstring(label, text) ==
    \/ label = text
    \/ label = "csv" /\ text \in {"http://x/ft/csv", "http://x/mt/text-csv"}

\* the HTTP status a HEAD / GET request returns; 0 stands for a raised exception
HeadStatus(url) ==
    CASE url = "http://a.example/file" -> 200
      [] url = "http://c.example/file" -> 405
      [] OTHER -> 0
GetStatus(url) ==
    CASE url = "http://a.example/file" -> 200
      [] url = "http://c.example/file" -> 200
      [] OTHER -> 0

\* url.startswith(('http://', 'https://')) and the prefixing of a scheme
HasScheme(url) == url \notin {"c.example/file"}
NormalizeUrl(url) == IF HasScheme(url) THEN url ELSE "http://c.example/file"

Is2xx(status) == 200 <= status /\ status < 300

\* one iteration of the probing loop of EntityTypeURLStatusChecker.check:
\* HEAD first, GET when HEAD raised or was not 2xx
UrlIsValid(url) ==
    LET u == NormalizeUrl(url)
    IN  IF Is2xx(HeadStatus(u)) THEN TRUE ELSE Is2xx(GetStatus(u))

\* what the shape loading and the pyshacl engine can do in one check
ShaclOutcomes == {"conforms", "violations", "no_shapes", "engine_error"}

\* What one run of SHACLComplianceChecker.check meets outside the program:
\*   update   - update_shacl_files() returns ("ok") or raises ("raises");
\*   files    - for each configured shapes file, whether it does not exist ("missing"),
\*              parses ("parsed") or makes the parser raise ("unparsable");
\*   fallback - no fallback_url ("none"), or the URL parses or makes the parser raise;
\*   engine   - pyshacl.validate returns conforms = True / False, raises the
\*              "Regex failed ... for pattern" error, or raises anything else.
ShaclFileStatus == {"missing", "parsed", "unparsable"}
ShaclFallbackStatus == {"none", "parsed", "unparsable"}
ShaclEngineStatus == {"conforms", "violations", "regex_error", "raises"}
ShaclRun(update, files, fallback, engine) ==
    [update |-> update, files |-> files, fallback |-> fallback, engine |-> engine]

\* one run behind each of the four outcomes distinguished in an evaluation
ShaclEnvironment(outcome) ==
    CASE outcome = "conforms" -> ShaclRun("ok", <<"parsed">>, "parsed", "conforms")
      [] outcome = "violations" -> ShaclRun("ok", <<"parsed">>, "parsed", "violations")
      [] outcome = "no_shapes" -> ShaclRun("raises", <<"missing">>, "unparsable", "conforms")
      [] outcome = "engine_error" -> ShaclRun("ok", <<"parsed">>, "parsed", "raises")

(***************************************************************************)
(* Checkers.  A checker is a record naming its class and its constructor   *)
(* arguments; check returns <<count, population>>.                         *)
(***************************************************************************)
Checker(cls, props, types, vocab) ==
    [cls |-> cls, property_uris |-> props, entity_types |-> types, vocab |-> vocab]

HasProperty(g, res, prop) == Values(g, res, prop) # {}

\* PropertyChecker.check
PropertyChecker_check(g, resources, c) ==
    LET prop == c.property_uris[1]
        total == Len(resources)
    IN  IF total = 0 THEN <<0, 0>>
        ELSE <<SeqSum([i \in 1..total |-> IF HasProperty(g, resources[i], prop) THEN 1 ELSE 0]),
               total>>

\* a check that counts over the resources it is handed instead of the typed subjects
EntityTypePropertyChecker_check_OverResources(g, resources, c) ==
    LET prop == c.property_uris[1]
        total == Len(resources)
    IN  IF total = 0 THEN <<0, 0>>
        ELSE <<SeqSum([i \in 1..total |-> IF HasProperty(g, resources[i], prop) THEN 1 ELSE 0]),
               total>>

\* a check that keeps, of the resources it is handed, those of its entity type
EntityTypePropertyChecker_check_TypedResources(g, resources, c) ==
    LET prop == c.property_uris[1]
        typed == {resources[i] : i \in 1..Len(resources)} \cap Subjects(g, c.entity_types[1])
    IN  <<Cardinality({e \in typed : HasProperty(g, e, prop)}), Cardinality(typed)>>

\* EntityTypePropertyChecker.check
EntityTypePropertyChecker_check(g, resources, c) ==
    LET prop == c.property_uris[1]
        entities_of_type == Subjects(g, c.entity_types[1])
        total == Cardinality(entities_of_type)
    IN  IF total = 0 THEN <<0, 0>>
        ELSE <<Cardinality({e \in entities_of_type : HasProperty(g, e, prop)}), total>>

\* a check that counts a resource once, however many of the configured types it has
MultipleEntityTypesPropertyChecker_check_Deduplicated(g, resources, c) ==
    LET prop == c.property_uris[1]
        ents == UNION {Subjects(g, c.entity_types[k]) : k \in 1..Len(c.entity_types)}
    IN  <<Cardinality({e \in ents : HasProperty(g, e, prop)}), Cardinality(ents)>>

\* MultipleEntityTypesPropertyChecker.check
MultipleEntityTypesPropertyChecker_check(g, resources, c) ==
    LET prop == c.property_uris[1]
        n == Len(c.entity_types)
        ents(k) == Subjects(g, c.entity_types[k])
    IN  <<SeqSum([k \in 1..n |-> Cardinality({e \in ents(k) : HasProperty(g, e, prop)})]),
          SeqSum([k \in 1..n |-> Cardinality(ents(k))])>>

\* the body of `for entity, url in urls_to_check`: 1 when the HEAD or the GET request of
\* this URL answered 2xx; whatever the requests raise is caught inside the iteration
UrlProbe(url) == IF UrlIsValid(url) THEN 1 ELSE 0

\* a loop in which a failing probe is not caught and ends the loop without a count
ProbeLoop_AllOrNothing(urls_to_check) ==
    IF \A i \in 1..Len(urls_to_check) : UrlProbe(urls_to_check[i][2].text) = 1
    THEN Len(urls_to_check) ELSE 0

\* the second loop of check: count += 1 for each URL whose probe succeeded
ProbeLoop(urls_to_check) ==
    SeqSum([i \in 1..Len(urls_to_check) |-> UrlProbe(urls_to_check[i][2].text)])

\* EntityTypeURLStatusChecker.check
EntityTypeURLStatusChecker_check(g, resources, c) ==
    LET prop == c.property_uris[1]
        etype == c.entity_types[1]
        entities_of_type ==
            IF Len(resources) > 0
            THEN SelectSeq(resources, LAMBDA e : etype \in g[e].types)
            ELSE SeqOfSet(Subjects(g, etype))
        urls(e) == {v \in Values(g, e, prop) : v.kind \in {"uri", "literal"}}
        n == Len(entities_of_type)
        urls_to_check ==
            ListOfSet(UNION {{<<entities_of_type[i], v>> : v \in urls(entities_of_type[i])}
                                : i \in 1..n})
        total == Len(urls_to_check)
    IN  IF total = 0 THEN <<0, 0>> ELSE <<Bind(urls_to_check, ProbeLoop), total>>

\* the values of the triples (res, prop, *) for prop in property_uris, one per triple
TriplesOf(g, res, props) ==
    {t \in g[res].pv : t[1] \in Range(props)}

\* a check whose population leaves out the values that are not URIs
VocabularyComplianceChecker_check_UrisOnly(g, resources, c) ==
    LET allowed_uris == VocabUris(c.vocab)
        n == Len(resources)
        uris(i) == {t \in TriplesOf(g, resources[i], c.property_uris) : t[2].kind = "uri"}
    IN  <<SeqSum([i \in 1..n |-> Cardinality({t \in uris(i) : t[2].text \in allowed_uris})]),
          SeqSum([i \in 1..n |-> Cardinality(uris(i))])>>

\* VocabularyComplianceChecker.check
VocabularyComplianceChecker_check(g, resources, c) ==
    LET allowed_uris == VocabUris(c.vocab)
        n == Len(resources)
        compliant(t) == t[2].kind = "uri" /\ t[2].text \in allowed_uris
    IN  <<SeqSum([i \in 1..n |->
                Cardinality({t \in TriplesOf(g, resources[i], c.property_uris) : compliant(t)})]),
          SeqSum([i \in 1..n |-> Cardinality(TriplesOf(g, resources[i], c.property_uris))])>>

\* VocabularyLabelComplianceChecker_NTI.__init__: the lower-cased label column
AllowedLabels(vocab) == {Lower(l) : l \in VocabLabels(vocab)}

\* a count that tries the URI text even when a label has already matched
LabelCompliance_NoGuard(value, allowed_labels) ==
    LET by_label == IF \E l \in value.labels : Lower(l) \in allowed_labels THEN 1 ELSE 0
    IN  CASE value.kind = "uri" ->
                by_label + (IF \E l \in allowed_labels : IsSubstring(l, Lower(value.text))
                            THEN 1 ELSE 0)
          [] value.kind = "bnode" -> by_label
          [] value.kind = "literal" -> IF Lower(value.text) \in allowed_labels THEN 1 ELSE 0

\* VocabularyLabelComplianceChecker_NTI.check: how much one value adds to compliant_count
LabelCompliance(value, allowed_labels) ==
    LET has_matching_label == \E l \in value.labels : Lower(l) \in allowed_labels
    IN  CASE value.kind = "uri" ->
                IF has_matching_label THEN 1
                ELSE IF \E l \in allowed_labels : IsSubstring(l, Lower(value.text))
                     THEN 1 ELSE 0
          [] value.kind = "bnode" -> IF has_matching_label THEN 1 ELSE 0
          [] value.kind = "literal" -> IF Lower(value.text) \in allowed_labels THEN 1 ELSE 0

\* VocabularyLabelComplianceChecker_NTI.check
VocabularyLabelComplianceChecker_NTI_check(g, resources, c) ==
    LET allowed_labels == AllowedLabels(c.vocab)
        n == Len(resources)
        triples(i) == ListOfSet(TriplesOf(g, resources[i], c.property_uris))
    IN  <<SeqSum([i \in 1..n |->
                SeqSum([k \in 1..Len(triples(i)) |->
                            LabelCompliance(triples(i)[k][2], allowed_labels)])]),
          SeqSum([i \in 1..n |-> Len(triples(i))])>>

\* A statement of check() either returns a value or raises.
Returns(value) == [kind |-> "return", value |-> value]
Raises == [kind |-> "raise"]

\* if self.auto_update: try: update_shacl_files() except: warn -- both ways go on
ShaclUpdateStep(env) == Returns(env.update)

\* the loop over self.shacl_files: local_files_loaded is set by each file that exists
\* and parses; a file that does not parse is logged and skipped
LocalFilesLoaded(files) == \E i \in 1..Len(files) : files[i] = "parsed"

\* if not local_files_loaded and self.fallback_url: try: parse(fallback_url) ...
ShapesLoaded(env) ==
    IF ~LocalFilesLoaded(env.files) /\ env.fallback # "none"
    THEN env.fallback = "parsed"
    ELSE LocalFilesLoaded(env.files)

\* conforms, _, _ = validate(g, shacl_graph=shapes_graph); return (1, 1) if conforms ...
ShaclValidate(env) ==
    CASE env.engine = "conforms" -> Returns(<<1, 1>>)
      [] env.engine = "violations" -> Returns(<<0, 1>>)
      [] OTHER -> Raises

\* the inner try: both branches of its except return (0, 1)
ShaclInnerTry(env) ==
    IF ShaclValidate(env).kind = "raise" THEN Returns(<<0, 1>>) ELSE ShaclValidate(env)

\* the body of the outer try with the test of local_files_loaded left out
ShaclOuterBody_Unguarded(env) == ShaclInnerTry(env)

\* the body of the outer try
ShaclOuterBody(env) ==
    IF ~ShapesLoaded(env) THEN Returns(<<0, 1>>) ELSE ShaclInnerTry(env)

\* the outer try: except Exception: return (0, 1)
SHACLComplianceChecker_outcome(env) ==
    IF ShaclUpdateStep(env).kind = "raise" \/ ShaclOuterBody(env).kind = "raise"
    THEN Returns(<<0, 1>>)
    ELSE ShaclOuterBody(env)

\* SHACLComplianceChecker.check: every failure is absorbed as (0, 1)
SHACLComplianceChecker_check(env) == SHACLComplianceChecker_outcome(env).value

\* MultiLevelSHACLComplianceChecker.check: picks the files of the level, then delegates
MultiLevelSHACLComplianceChecker_check(env) == SHACLComplianceChecker_check(env)

\* checker.check(g, resources, context), dispatched on the class of the checker
Check(c, g, resources, shacl) ==
    CASE c.cls = "PropertyChecker" -> PropertyChecker_check(g, resources, c)
      [] c.cls = "EntityTypePropertyChecker" -> EntityTypePropertyChecker_check(g, resources, c)
      [] c.cls = "MultipleEntityTypesPropertyChecker" ->
            MultipleEntityTypesPropertyChecker_check(g, resources, c)
      [] c.cls = "EntityTypeURLStatusChecker" -> EntityTypeURLStatusChecker_check(g, resources, c)
      [] c.cls = "VocabularyComplianceChecker" -> VocabularyComplianceChecker_check(g, resources, c)
      [] c.cls = "VocabularyLabelComplianceChecker_NTI" ->
            VocabularyLabelComplianceChecker_NTI_check(g, resources, c)
      [] c.cls = "SHACLComplianceChecker" ->
            SHACLComplianceChecker_check(ShaclEnvironment(shacl))
      [] c.cls = "MultiLevelSHACLComplianceChecker" ->
            MultiLevelSHACLComplianceChecker_check(ShaclEnvironment(shacl))

EntityType(prop, etype) == Checker("EntityTypePropertyChecker", <<prop>>, <<etype>>, "none")
UrlStatus(prop, etype) == Checker("EntityTypeURLStatusChecker", <<prop>>, <<etype>>, "none")
Vocabulary(prop, vocab) == Checker("VocabularyComplianceChecker", <<prop>>, <<>>, vocab)
MultiType(prop) ==
    Checker("MultipleEntityTypesPropertyChecker", <<prop>>, <<"Dataset", "Distribution">>, "none")

\* the ids CHECKER_DEFINITIONS has a constructor for
CheckerIds == {
    "dcat_keyword", "dcat_theme", "dct_spatial", "dct_temporal",
    "dcat_accessURL_status", "dcat_downloadURL", "dcat_downloadURL_status",
    "dct_format", "dcat_mediaType", "dct_format_vocabulary", "dct_mediaType_vocabulary",
    "dct_format_nonproprietary", "dct_format_machinereadable",
    "dcat_ap_compliance", "dcat_ap_es_compliance", "nti_risp_compliance",
    "dct_license", "dct_license_vocabulary", "dct_accessRights",
    "dct_accessRights_vocabulary", "dcat_contactPoint", "dct_publisher",
    "dct_rights", "dcat_byteSize", "dct_issued", "dct_modified",
    "dct_format_vocabulary_nti_risp" }

CHECKER_DEFINITIONS == [id \in CheckerIds |->
    CASE id = "dcat_keyword" -> EntityType("dcat:keyword", "Dataset")
      [] id = "dcat_theme" -> EntityType("dcat:theme", "Dataset")
      [] id = "dct_spatial" -> EntityType("dct:spatial", "Dataset")
      [] id = "dct_temporal" -> EntityType("dct:temporal", "Dataset")
      [] id = "dcat_accessURL_status" -> UrlStatus("dcat:accessURL", "Distribution")
      [] id = "dcat_downloadURL" -> EntityType("dcat:downloadURL", "Distribution")
      [] id = "dcat_downloadURL_status" -> UrlStatus("dcat:downloadURL", "Distribution")
      [] id = "dct_format" -> EntityType("dct:format", "Distribution")
      [] id = "dcat_mediaType" -> EntityType("dcat:mediaType", "Distribution")
      [] id = "dct_format_vocabulary" -> Vocabulary("dct:format", "file_types")
      [] id = "dct_mediaType_vocabulary" -> Vocabulary("dcat:mediaType", "media_types")
      [] id = "dct_format_nonproprietary" -> Vocabulary("dct:format", "non_proprietary")
      [] id = "dct_format_machinereadable" -> Vocabulary("dct:format", "machine_readable")
      [] id = "dcat_ap_compliance" ->
            Checker("MultiLevelSHACLComplianceChecker", <<>>, <<>>, "none")
      [] id = "dcat_ap_es_compliance" -> Checker("SHACLComplianceChecker", <<>>, <<>>, "none")
      [] id = "nti_risp_compliance" -> Checker("SHACLComplianceChecker", <<>>, <<>>, "none")
      [] id = "dct_license" -> EntityType("dct:license", "Distribution")
      [] id = "dct_license_vocabulary" -> Vocabulary("dct:license", "license")
      [] id = "dct_accessRights" -> EntityType("dct:accessRights", "Dataset")
      [] id = "dct_accessRights_vocabulary" -> Vocabulary("dct:accessRights", "access_rights")
      [] id = "dcat_contactPoint" -> EntityType("dcat:contactPoint", "Dataset")
      [] id = "dct_publisher" -> EntityType("dct:publisher", "Dataset")
      [] id = "dct_rights" -> EntityType("dct:rights", "Distribution")
      [] id = "dcat_byteSize" -> EntityType("dcat:byteSize", "Distribution")
      [] id = "dct_issued" -> MultiType("dct:issued")
      [] id = "dct_modified" -> MultiType("dct:modified")
      [] id = "dct_format_vocabulary_nti_risp" ->
            Checker("VocabularyLabelComplianceChecker_NTI", <<"dct:format">>, <<>>, "file_types")]

RECURSIVE RegisterCheckersLoop(_, _)
RegisterCheckersLoop(reg, todo) ==
    IF todo = <<>> THEN reg
    ELSE LET metric_id == Head(todo).id
         IN  Bind2(IF metric_id \in CheckerIds
                   THEN register_checker(reg, metric_id, CHECKER_DEFINITIONS[metric_id])
                   ELSE reg,
                   Tail(todo),
                   LAMBDA r, t : RegisterCheckersLoop(r, t))

\* register_standard_checkers(profile): clears registry.checkers, then binds a checker to
\* each metric of the profile's list; a ValueError of register_checker is logged and swallowed
register_standard_checkers(reg, profile) ==
    RegisterCheckersLoop([reg EXCEPT !.checkers = EmptyCheckers], MetricsOfProfile(profile))

\* VOCAB_CACHE = {}: the module-level dict, empty when the module has been imported
EmptyCache == [k \in {} |-> 0]

\* the key a checker looks up: csv_path, or f"{csv_path}_{label_column}" for the label
\* checker
CacheKey(c) ==
    IF c.cls = "VocabularyLabelComplianceChecker_NTI" THEN <<c.vocab, "label_es">>
    ELSE <<c.vocab>>

\* the classes whose constructor consults VOCAB_CACHE
UsesCache(c) ==
    c.cls \in {"VocabularyComplianceChecker", "VocabularyLabelComplianceChecker_NTI"}

\* the set the constructor builds from the CSV file
BuildAllowed(c) ==
    IF c.cls = "VocabularyLabelComplianceChecker_NTI" THEN AllowedLabels(c.vocab)
    ELSE VocabUris(c.vocab)

\* VOCAB_CACHE[key] = allowed: the entry is the set object built by the call `builder`
CacheStore(cache, key, allowed, builder) ==
    [k \in DOMAIN cache \cup {key} |->
        IF k = key THEN [allowed |-> allowed, built_by |-> builder] ELSE cache[k]]

\* __init__ of a checker run without interruption: build and store on a miss only
ConstructChecker(cache, c, builder) ==
    IF UsesCache(c) /\ CacheKey(c) \notin DOMAIN cache
    THEN CacheStore(cache, CacheKey(c), BuildAllowed(c), builder)
    ELSE cache

RECURSIVE ConstructCheckersLoop(_, _, _)
\* the checker_constructor() calls of register_standard_checkers, in list order
ConstructCheckersLoop(cache, todo, builder) ==
    IF todo = <<>> THEN cache
    ELSE ConstructCheckersLoop(
            IF Head(todo).id \in CheckerIds
            THEN ConstructChecker(cache, CHECKER_DEFINITIONS[Head(todo).id], builder)
            ELSE cache,
            Tail(todo), builder)

\* VOCAB_CACHE after register_standard_checkers(profile)
CacheAfterCheckers(cache, profile, builder) ==
    ConstructCheckersLoop(cache, MetricsOfProfile(profile), builder)

(***************************************************************************)
(* calculate_metrics.                                                      *)
(***************************************************************************)
\* the metric ids of the model that end with "_compliance"
ComplianceSuffixed ==
    {"dcat_ap_compliance", "dcat_ap_es_compliance", "nti_risp_compliance"}

\* the metric ids of the model that start with "dcat_"
DcatPrefixed ==
    {"dcat_keyword", "dcat_theme", "dcat_accessURL_status", "dcat_downloadURL",
     "dcat_downloadURL_status", "dcat_mediaType", "dcat_contactPoint",
     "dcat_byteSize", "dcat_ap_compliance", "dcat_ap_es_compliance"}

\* the metric ids of the model that start with "dct_"
DctPrefixed ==
    {"dct_spatial", "dct_temporal", "dct_format", "dct_format_vocabulary",
     "dct_mediaType_vocabulary", "dct_format_nonproprietary",
     "dct_format_machinereadable", "dct_license", "dct_license_vocabulary",
     "dct_accessRights", "dct_accessRights_vocabulary", "dct_publisher",
     "dct_rights", "dct_issued", "dct_modified", "dct_format_vocabulary_nti_risp"}

\* metric_id.endswith("_compliance")
EndsWithCompliance(metric_id) == metric_id \in ComplianceSuffixed

\* metric_id.startswith("dcat_")
StartsWithDcat(metric_id) == metric_id \in DcatPrefixed

\* metric_id.startswith("dct_")
StartsWithDct(metric_id) == metric_id \in DctPrefixed

\* word in str(checker.__class__), for the two words calculate_metrics looks for:
\* no checker class has "Dataset" in its name
ClassNameContains(cls, word) ==
    CASE word = "MultipleEntityTypes" -> cls = "MultipleEntityTypesPropertyChecker"
      [] word = "Dataset" -> FALSE

\* a filter that lets every compliance metric through
ComplianceDesignated_Any(model, metric_id) == TRUE

\* the compliance filter: TRUE when the metric is the one designated for the model
ComplianceDesignated(model, metric_id) ==
    \/ model = "dcat_ap" /\ metric_id = "dcat_ap_compliance"
    \/ model = "dcat_ap_es" /\ metric_id = "dcat_ap_es_compliance"
    \/ model = "nti_risp" /\ metric_id = "nti_risp_compliance"

\* resources_to_check of calculate_metrics
ResourcesToCheck(metric_id, checker, datasets, distributions) ==
    IF StartsWithDcat(metric_id)
    THEN IF ClassNameContains(checker.cls, "Dataset") THEN datasets ELSE distributions
    ELSE IF StartsWithDct(metric_id)
    THEN IF ClassNameContains(checker.cls, "MultipleEntityTypes")
         THEN datasets \o distributions
         ELSE IF ClassNameContains(checker.cls, "Dataset") THEN datasets ELSE distributions
    ELSE datasets \o distributions

\* a default whose population is the plain length of the candidate list
ExceptionDefault_LenOnly(resources_to_check) == <<0, Len(resources_to_check)>>

\* count, population when checker.check raised
ExceptionDefault(resources_to_check) ==
    <<0, IF Len(resources_to_check) > 0 THEN Len(resources_to_check) ELSE 1>>

\* percentage = count / population if population > 0 else 0
Percentage(count, population) == IF population > 0 THEN Frac(count, population) ELSE <<0, 1>>

\* points = percentage * weight
Points(percentage, weight) == Frac(percentage[1] * weight, percentage[2])

\* the result dict of one metric
MetricResult(metric, cp) ==
    Bind2(cp, Percentage(cp[1], cp[2]), LAMBDA v, percentage :
        [id |-> metric.id, dimension |-> metric.dimension, count |-> v[1],
         population |-> v[2], percentage |-> percentage,
         points |-> Points(percentage, metric.weight), weight |-> metric.weight])

\* an except clause that records the failure but appends no entry
OnCheckerException_NoEntry(acc, metric, resources_to_check) ==
    [acc EXCEPT !.raised = @ \cup {metric.id}]

\* what the except clause of calculate_metrics does when checker.check raised
OnCheckerException(acc, metric, resources_to_check) ==
    [acc EXCEPT !.results = Append(@, MetricResult(metric, ExceptionDefault(resources_to_check))),
                !.raised = @ \cup {metric.id}]

\* the body of the for loop of calculate_metrics for one metric: acc carries results,
\* the ids whose checker raised, and compliance_included
MetricStep(acc, metric, checker, datasets, distributions, g, model, shacl, raising) ==
    LET metric_id == metric.id
        skip_compliance ==
            EndsWithCompliance(metric_id)
            /\ (acc.compliance_included \/ ~ComplianceDesignated(model, metric_id))
        acc1 == IF EndsWithCompliance(metric_id)
                THEN [acc EXCEPT !.compliance_included = TRUE] ELSE acc
    IN  IF skip_compliance THEN acc
        ELSE IF checker = NoChecker THEN acc1
        ELSE Bind(ResourcesToCheck(metric_id, checker, datasets, distributions),
                  LAMBDA resources_to_check :
                    IF metric_id \in raising
                    THEN OnCheckerException(acc1, metric, resources_to_check)
                    ELSE [acc1 EXCEPT !.results =
                            Append(@, MetricResult(metric,
                                        Check(checker, g, resources_to_check, shacl)))])

RECURSIVE MetricsLoop_StopAtMissing(_, _, _, _, _, _, _, _, _)
\* a loop that gives up at the first metric without a checker
MetricsLoop_StopAtMissing(todo, acc, reg, datasets, distributions, g, model, shacl, raising) ==
    IF todo = <<>> THEN acc
    ELSE Bind2(Head(todo), get_checker(reg, Head(todo).id), LAMBDA metric, checker :
            IF checker = NoChecker THEN acc
            ELSE Bind2(MetricStep(acc, metric, checker, datasets, distributions,
                                  g, model, shacl, raising),
                       Tail(todo),
                       LAMBDA a, t : MetricsLoop_StopAtMissing(t, a, reg, datasets, distributions,
                                                               g, model, shacl, raising)))

RECURSIVE MetricsLoop(_, _, _, _, _, _, _, _, _)
\* the for loop of calculate_metrics over all_metrics; raising is the set of metric ids
\* whose checker raises in check()
MetricsLoop(todo, acc, reg, datasets, distributions, g, model, shacl, raising) ==
    IF todo = <<>> THEN acc
    ELSE Bind2(Head(todo), get_checker(reg, Head(todo).id), LAMBDA metric, checker :
            Bind2(MetricStep(acc, metric, checker, datasets, distributions,
                             g, model, shacl, raising),
                  Tail(todo),
                  LAMBDA a, t : MetricsLoop(t, a, reg, datasets, distributions,
                                            g, model, shacl, raising)))

\* calculate_metrics(g, shacl_level, model)
calculate_metrics(reg, g, model, shacl, raising) ==
    Bind2(SeqOfSet(Subjects(g, "Dataset")), SeqOfSet(Subjects(g, "Distribution")),
          LAMBDA datasets, distributions :
            MetricsLoop(get_all_metrics(reg),
                        [results |-> <<>>, raised |-> {}, compliance_included |-> FALSE],
                        reg, datasets, distributions, g, model, shacl, raising))

(***************************************************************************)
(* calculate_dimension_scores, the total and determine_rating.             *)
(***************************************************************************)
RECURSIVE FracSumUpTo(_, _)
FracSumUpTo(s, n) ==
    IF n = 0 THEN <<0, 1>>
    ELSE Bind(FracSumUpTo(s, n - 1), LAMBDA x : FracAdd(x, s[n]))

\* the sum of a list of fractions
FracSum(s) == Bind(s, LAMBDA v : FracSumUpTo(v, Len(v)))

\* a rounding that sends every tie to the larger neighbour
Round_HalfUp(x) ==
    IF 2 * (x[1] % x[2]) < x[2] THEN x[1] \div x[2] ELSE (x[1] \div x[2]) + 1

\* Python's round(x) of a non-negative value: nearest integer, ties to the even neighbour
Round(x) ==
    LET q == x[1] \div x[2]
        r == x[1] % x[2]
    IN  IF 2 * r < x[2] THEN q
        ELSE IF 2 * r > x[2] THEN q + 1
        ELSE IF q % 2 = 0 THEN q ELSE q + 1

\* the points accumulated for one dimension
RawDimension(metrics, dim) ==
    FracSum([i \in 1..Len(metrics) |->
                IF metrics[i].dimension = dim THEN metrics[i].points ELSE <<0, 1>>])

\* calculate_dimension_scores(metrics)
calculate_dimension_scores(metrics) ==
    [d \in Range(Dimensions) |-> Round(RawDimension(metrics, d))]

\* sum(dimension_scores.values())
TotalScore(dimension_scores) ==
    SeqSum([i \in 1..Len(Dimensions) |-> dimension_scores[Dimensions[i]]])

\* a total computed as round(sum of all raw points)
Scores_RoundOfRawSum(metrics_results) ==
    [dimensions |-> calculate_dimension_scores(metrics_results),
     totalScore |-> Round(FracSum([i \in 1..Len(metrics_results) |-> metrics_results[i].points]))]

\* dimension_scores = calculate_dimension_scores(metrics_results) and
\* total_score = sum(dimension_scores.values()) of the two entry points
Scores(metrics_results) ==
    Bind(calculate_dimension_scores(metrics_results), LAMBDA dimension_scores :
        [dimensions |-> dimension_scores, totalScore |-> TotalScore(dimension_scores)])

\* a rating whose tiers start above their thresholds
determine_rating_Above(total_score, model) ==
    LET thresholds == IF model \in ProfileNames
                      THEN RATING_THRESHOLDS_BY_PROFILE[model] ELSE RATING_THRESHOLDS
    IN  IF total_score > thresholds.excellent THEN "Excellent"
        ELSE IF total_score > thresholds.good THEN "Good"
        ELSE IF total_score > thresholds.sufficient THEN "Sufficient"
        ELSE "Bad"

\* determine_rating(total_score, model)
determine_rating(total_score, model) ==
    LET thresholds == IF model \in ProfileNames
                      THEN RATING_THRESHOLDS_BY_PROFILE[model] ELSE RATING_THRESHOLDS
    IN  IF total_score >= thresholds.excellent THEN "Excellent"
        ELSE IF total_score >= thresholds.good THEN "Good"
        ELSE IF total_score >= thresholds.sufficient THEN "Sufficient"
        ELSE "Bad"

(***************************************************************************)
(* Inputs of an evaluation: the graphs.                                    *)
(***************************************************************************)
ArPublic == Uri("http://x/ar/PUBLIC", {})
ArOther == Uri("http://x/ar/OTHER", {})

\* the <<property, value>> triples a resource of an input graph may carry
PVPool == {
    <<"dct:rights", Lit("rights statement")>>,
    <<"dct:accessRights", ArPublic>>,
    <<"dct:accessRights", ArOther>> }

NodeShapes == {Node({t}, pv) : t \in {"Dataset", "Distribution"}, pv \in SUBSET PVPool}

ShapeList == ListOfSet(NodeShapes)

\* the graphs of at most MaxRes resources, one per multiset of node shapes
Graphs ==
    UNION {
        {[i \in 1..n |-> ShapeList[f[i]]] :
            f \in {h \in [1..n -> 1..Len(ShapeList)] :
                        \A i \in 1..n, j \in 1..n : i <= j => h[i] <= h[j]}}
        : n \in 0..MaxRes}

\* what the caller names: a source that loads into a graph, or one that cannot be loaded
Sources == {[loadable |-> TRUE, graph |-> gr] : gr \in Graphs}
           \cup {[loadable |-> FALSE, graph |-> <<>>]}

\* the model argument: the three profiles and a name that is none of them
Models == ProfileNames \cup {"unknown_profile"}

\* validate_metadata_quality (a URL) and validate_metadata_from_content (direct content)
Entries == {"url", "content"}

(***************************************************************************)
(* State.                                                                  *)
(***************************************************************************)
VARIABLES
    registry,   \* the global MetricRegistry instance
    pc,         \* position of the evaluation in its entry point
    entry,      \* which entry point runs
    model,      \* its model argument
    source,     \* its url / content argument
    g,          \* the loaded graph
    shacl,      \* what the shape-conformance engine did in this evaluation
    raised,     \* ids of the metrics whose checker raised in check()
    results,    \* metrics_results
    report,     \* the returned report
    error,      \* the exception the entry point raised, "" if none
    db,         \* the reports table of the TinyDB repository, in insertion order
    VOCAB_CACHE, \* the module-level cache of allow-sets, by cache key
    http_log    \* the HTTP requests issued so far, in order

vars == <<registry, pc, entry, model, source, g, shacl, raised, results, report, error,
          db, VOCAB_CACHE, http_log>>

NoReport == [source |-> "none"]

Init ==
    /\ registry = ImportedRegistry
    /\ pc = "start"
    /\ entry \in Entries
    /\ model \in Models
    /\ source \in Sources
    /\ g = <<>>
    /\ shacl = "not_run"
    /\ raised = {}
    /\ results = <<>>
    /\ report = NoReport
    /\ error = ""
    /\ db = <<>>
    /\ VOCAB_CACHE = EmptyCache
    /\ http_log = <<>>

\* a load that fails only when the source itself cannot be fetched or parsed
LoadFails_OnlyUnloadable == ~source.loadable

\* load_graph_from_content raises on an empty parsed graph; load_graph does not
LoadFails ==
    \/ ~source.loadable
    \/ entry = "content" /\ GraphLen(source.graph) = 0

\* the exception the loader raises first: what went wrong underneath
LoadFailureCauses(e, src) ==
    IF e = "url" THEN {"request or parser error"}
    ELSE IF ~src.loadable
         THEN {"Unsupported content type", "parser error"}
         ELSE {"The parsed graph is empty. Please check your input."}

\* the message of the exception the entry point raises: each except clause wraps str(e),
\* outermost prefix first
WrappedError(e, cause) ==
    IF e = "url"
    THEN <<"Failed to validate metadata: ", "Could not load RDF data from url: ", cause>>
    ELSE <<"Error validating content: ", "Error parsing content: ", cause>>

\* g = load_graph(url) / load_graph_from_content(content, content_type)
LoadGraph ==
    /\ pc = "start"
    /\ ~LoadFails
    /\ g' = source.graph
    /\ pc' = "loaded"
    /\ UNCHANGED <<registry, entry, model, source, shacl, raised, results, report, error, db, VOCAB_CACHE, http_log>>

\* the load raised: the entry point re-raises and returns no report
LoadGraphFails ==
    /\ pc = "start"
    /\ LoadFails
    /\ pc' = "failed"
    /\ \E cause \in LoadFailureCauses(entry, source) : error' = WrappedError(entry, cause)
    /\ UNCHANGED <<registry, entry, model, source, g, shacl, raised, results, report, db, VOCAB_CACHE, http_log>>

\* register_standard_metrics(model)
RegisterStandardMetrics ==
    /\ pc = "loaded"
    /\ registry' = register_standard_metrics(registry, model)
    /\ pc' = "metrics_registered"
    /\ UNCHANGED <<entry, model, source, g, shacl, raised, results, report, error, db, VOCAB_CACHE, http_log>>

\* the profile register_standard_checkers is called with: validate_metadata_quality passes
\* model, validate_metadata_from_content calls it without argument (default "dcat_ap_es")
CheckersProfile(e, m) == IF e = "url" THEN m ELSE "dcat_ap_es"

\* register_standard_checkers(...)
RegisterStandardCheckers ==
    /\ pc = "metrics_registered"
    /\ registry' = register_standard_checkers(registry, CheckersProfile(entry, model))
    /\ VOCAB_CACHE' = CacheAfterCheckers(VOCAB_CACHE, CheckersProfile(entry, model), entry)
    /\ pc' = "checkers_registered"
    /\ UNCHANGED <<entry, model, source, g, shacl, raised, results, report, error, db, http_log>>

\* what the environment does in one evaluation: the metrics whose checker raises in
\* check() and the outcome of the shape-conformance engine, with at most MaxDeviations
\* departures from "no checker raises, the graph conforms"
EnvPlans(reg) ==
    {pl \in [raising : SubsetsUpTo(MetricIds(reg.metrics), MaxDeviations),
             shacl : ShaclOutcomes] :
        Cardinality(pl.raising) + (IF pl.shacl = "conforms" THEN 0 ELSE 1) <= MaxDeviations}

\* metrics_results = calculate_metrics(g, shacl_level, model=model)
CalculateMetrics ==
    /\ pc = "checkers_registered"
    /\ \E plan \in EnvPlans(registry) :
          \E out \in {calculate_metrics(registry, g, model, plan.shacl, plan.raising)} :
              /\ results' = out.results
              /\ raised' = out.raised
              /\ shacl' = plan.shacl
    /\ pc' = "calculated"
    /\ UNCHANGED <<registry, entry, model, source, g, report, error, db, VOCAB_CACHE, http_log>>

\* the source field of the report
ReportSource(e) == IF e = "url" THEN "url" ELSE "direct-input-timestamp"

\* dimension scores, total score, rating and the report dict
AssembleReport ==
    /\ pc = "calculated"
    /\ \E scores \in {Scores(results)} :
          report' = [source |-> ReportSource(entry), model |-> model,
                     totalScore |-> scores.totalScore,
                     rating |-> determine_rating(scores.totalScore, model),
                     dimensions |-> scores.dimensions, metrics |-> results]
    /\ pc' = "done"
    /\ UNCHANGED <<registry, entry, model, source, g, shacl, raised, results, error, db, VOCAB_CACHE, http_log>>

\* "created": datetime.now().strftime("%Y-%m-%d") of an evaluation run on its own
Today == "2026-01-01"

\* QualityReport(**report_data): the bounds pydantic enforces on a report
QualityReport_valid(rep) ==
    /\ rep.totalScore \in 0..405
    /\ rep.dimensions.findability \in 0..100
    /\ rep.dimensions.accessibility \in 0..100
    /\ rep.dimensions.interoperability \in 0..110
    /\ rep.dimensions.reusability \in 0..75
    /\ rep.dimensions.contextuality \in 0..20

\* validated_report.dict(): the fields of QualityReport
StoredDocument(rep, created) ==
    [source |-> rep.source, created |-> created, totalScore |-> rep.totalScore,
     rating |-> rep.rating, dimensions |-> rep.dimensions, metrics |-> rep.metrics]

\* TinyDBRepository.insert_report: self.db.insert(validated_report.dict())
insert_report(table, rep, created) == Append(table, StoredDocument(rep, created))

\* POST /validate and /validate-content after the entry point returned: the endpoint has
\* accepted the model name, inserts the report and returns it; a report pydantic rejects
\* is answered with HTTP 400 and not inserted
EndpointStoresReport ==
    /\ pc = "done"
    /\ model \in {"dcat_ap", "dcat_ap_es", "nti_risp"}
    /\ IF QualityReport_valid(report)
       THEN /\ db' = insert_report(db, report, Today)
            /\ pc' = "stored"
            /\ UNCHANGED error
       ELSE /\ db' = db
            /\ pc' = "http_400"
            /\ error' = <<"ValidationError">>
    /\ UNCHANGED <<registry, entry, model, source, g, shacl, raised, results, report,
                   VOCAB_CACHE, http_log>>

\* the endpoints' except clause: HTTPException(status_code=400, detail=str(e))
EndpointRaises400 ==
    /\ pc = "failed"
    /\ pc' = "http_400"
    /\ UNCHANGED <<registry, entry, model, source, g, shacl, raised, results, report, error,
                   db, VOCAB_CACHE, http_log>>

Next ==
    \/ LoadGraph
    \/ LoadGraphFails
    \/ RegisterStandardMetrics
    \/ RegisterStandardCheckers
    \/ CalculateMetrics
    \/ AssembleReport
    \/ EndpointStoresReport
    \/ EndpointRaises400

Spec == Init /\ [][Next]_vars

(***************************************************************************)
(* calculate_metrics called on its own (SpecCalc): the registry is the one *)
(* an earlier evaluation left behind, the model argument is any name.      *)
(***************************************************************************)
\* the registry after an evaluation through entry point e0 with model m0
RegistryAfter(e0, m0) ==
    register_standard_checkers(register_standard_metrics(ImportedRegistry, m0),
                               CheckersProfile(e0, m0))

\* the graphs of the direct calls: at most one resource
CalcGraphs == {gr \in Graphs : Len(gr) <= 1}

InitCalc ==
    /\ \E e0 \in Entries, m0 \in Models :
          /\ registry = RegistryAfter(e0, m0)
          /\ VOCAB_CACHE = CacheAfterCheckers(EmptyCache, CheckersProfile(e0, m0), e0)
    /\ pc = "checkers_registered"
    /\ entry = "calculate_metrics"
    /\ model \in Models
    /\ source \in {[loadable |-> TRUE, graph |-> gr] : gr \in CalcGraphs}
    /\ g = source.graph
    /\ shacl = "not_run"
    /\ raised = {}
    /\ results = <<>>
    /\ report = NoReport
    /\ error = ""
    /\ db = <<>>
    /\ http_log = <<>>

NextCalc == CalculateMetrics

SpecCalc == InitCalc /\ [][NextCalc]_vars

(***************************************************************************)
(* One checker on one graph (SpecCheck): the body of the loop of           *)
(* calculate_metrics for one metric of the profile, on graphs that carry   *)
(* URLs, formats and dates.                                                *)
(***************************************************************************)
\* the <<property, value>> triples a resource of these graphs may carry
CheckPool == {
    <<"dcat:accessURL", Uri("http://a.example/file", {})>>,
    <<"dcat:accessURL", Lit("c.example/file")>>,
    <<"dcat:accessURL", Uri("http://b.example/file", {})>>,
    <<"dct:format", Uri("http://x/ft/CSV", {"CSV"})>>,
    <<"dct:format", Uri("http://x/ft/XLS", {})>>,
    <<"dct:format", Uri("http://x/ft/PDF", {"Csv"})>>,
    <<"dct:format", Lit("CSV")>>,
    <<"dct:format", BNode("b1", {"Excel XLS"})>>,
    <<"dct:issued", Lit("2020-01-01")>> }

CheckShapes ==
    ListOfSet({Node({t}, pv) : t \in {"Dataset", "Distribution"},
                               pv \in SubsetsUpTo(CheckPool, MaxTriples)})

\* the graphs of at most MaxRes such resources, one per multiset of shapes
CheckGraphs ==
    UNION {
        {[i \in 1..n |-> CheckShapes[f[i]]] :
            f \in {h \in [1..n -> 1..Len(CheckShapes)] :
                        \A i \in 1..n, j \in 1..n : i <= j => h[i] <= h[j]}}
        : n \in 0..MaxRes}

InitCheck ==
    /\ model \in ProfileNames
    /\ registry = RegistryAfter("url", model)
    /\ pc = "check_start"
    /\ entry = "check"
    /\ source \in {[loadable |-> TRUE, graph |-> gr] : gr \in CheckGraphs}
    /\ g = source.graph
    /\ shacl = "not_run"
    /\ raised = {}
    /\ results = <<>>
    /\ report = NoReport
    /\ error = ""
    /\ db = <<>>
    /\ VOCAB_CACHE = CacheAfterCheckers(EmptyCache, model, "url")
    /\ http_log = <<>>

\* one pass of the loop body of calculate_metrics, for the k-th registered metric
CheckMetric ==
    /\ pc = "check_start"
    /\ \E k \in 1..Len(registry.metrics) :
          \E plan \in {pl \in EnvPlans(registry) :
                            /\ pl.raising \subseteq {registry.metrics[k].id}
                            /\ (pl.shacl # "conforms"
                                    => registry.metrics[k].id \in ComplianceSuffixed)} :
          \E out \in {MetricStep([results |-> <<>>, raised |-> {}, compliance_included |-> FALSE],
                                 registry.metrics[k],
                                 get_checker(registry, registry.metrics[k].id),
                                 SeqOfSet(Subjects(g, "Dataset")),
                                 SeqOfSet(Subjects(g, "Distribution")),
                                 g, model, plan.shacl, plan.raising)} :
              /\ results' = out.results
              /\ raised' = out.raised
              /\ shacl' = plan.shacl
    /\ pc' = "checked"
    /\ UNCHANGED <<registry, entry, model, source, g, report, error, db, VOCAB_CACHE, http_log>>

NextCheck == CheckMetric

SpecCheck == InitCheck /\ [][NextCheck]_vars

(***************************************************************************)
(* determine_rating on its own (SpecRating).                               *)
(***************************************************************************)
\* the totals a rating is asked for: 0 up to the largest declared maximum
RatingTotals == 0..MAX_SCORES["dcat_ap"]

InitRating ==
    /\ registry = ImportedRegistry
    /\ pc = "rating_start"
    /\ entry = "determine_rating"
    /\ model \in Models
    /\ source = [loadable |-> FALSE, graph |-> <<>>]
    /\ g = <<>>
    /\ shacl = "not_run"
    /\ raised = {}
    /\ results = <<>>
    /\ report \in {[totalScore |-> t] : t \in RatingTotals}
    /\ error = ""
    /\ db = <<>>
    /\ VOCAB_CACHE = EmptyCache
    /\ http_log = <<>>

\* rating = determine_rating(total_score, model)
DetermineRating ==
    /\ pc = "rating_start"
    /\ report' = [totalScore |-> report.totalScore,
                  rating |-> determine_rating(report.totalScore, model)]
    /\ pc' = "rated"
    /\ UNCHANGED <<registry, entry, model, source, g, shacl, raised, results, error, db, VOCAB_CACHE, http_log>>

NextRating == DetermineRating

SpecRating == InitRating /\ [][NextRating]_vars

(***************************************************************************)
(* The MetricRegistry API on its own (SpecRegistry): report holds the last *)
(* call, error the exception it raised.                                    *)
(***************************************************************************)
\* the ids the calls name: a metric of every profile, one of one profile, one of none
RegistryIds == {"dct_license", "dcat_ap_compliance", "custom_metric"}

\* the checkers the calls bind
RegistryCheckers == {CHECKER_DEFINITIONS["dct_license"], CHECKER_DEFINITIONS["dct_rights"]}

InitRegistry ==
    /\ registry = NewRegistry
    /\ pc = "api"
    /\ entry = "registry"
    /\ model = "none"
    /\ source = [loadable |-> FALSE, graph |-> <<>>]
    /\ g = <<>>
    /\ shacl = "not_run"
    /\ raised = {}
    /\ results = <<>>
    /\ report = [call |-> "none", metric_id |-> "none"]
    /\ error = ""
    /\ db = <<>>
    /\ VOCAB_CACHE = EmptyCache
    /\ http_log = <<>>

\* registry.register_metric(metric_id, dimension, weight)
CallRegisterMetric ==
    /\ pc = "api"
    /\ \E metric_id \in RegistryIds :
          /\ registry' = register_metric(registry, metric_id, "reusability", 20)
          /\ report' = [call |-> "register_metric", metric_id |-> metric_id]
    /\ error' = ""
    /\ UNCHANGED <<pc, entry, model, source, g, shacl, raised, results, db, VOCAB_CACHE, http_log>>

\* registry.register_checker(metric_id, checker)
CallRegisterChecker ==
    /\ pc = "api"
    /\ \E metric_id \in RegistryIds, checker \in RegistryCheckers :
          /\ registry' = register_checker(registry, metric_id, checker)
          /\ error' = IF register_checker_raises(registry, metric_id) THEN "ValueError" ELSE ""
          /\ report' = [call |-> "register_checker", metric_id |-> metric_id,
                        checker |-> checker]
    /\ UNCHANGED <<pc, entry, model, source, g, shacl, raised, results, db, VOCAB_CACHE, http_log>>

\* register_standard_metrics(profile): replaces the metrics, keeps the checkers
CallRegisterStandardMetrics ==
    /\ pc = "api"
    /\ \E profile \in ProfileNames :
          /\ registry' = register_standard_metrics(registry, profile)
          /\ report' = [call |-> "register_standard_metrics", metric_id |-> profile]
    /\ error' = ""
    /\ UNCHANGED <<pc, entry, model, source, g, shacl, raised, results, db, VOCAB_CACHE, http_log>>

\* register_standard_checkers(profile): replaces the checkers, keeps the metrics
CallRegisterStandardCheckers ==
    /\ pc = "api"
    /\ \E profile \in ProfileNames :
          /\ registry' = register_standard_checkers(registry, profile)
          /\ VOCAB_CACHE' = CacheAfterCheckers(VOCAB_CACHE, profile, entry)
          /\ report' = [call |-> "register_standard_checkers", metric_id |-> profile]
    /\ error' = ""
    /\ UNCHANGED <<pc, entry, model, source, g, shacl, raised, results, db, http_log>>

NextRegistry ==
    \/ CallRegisterMetric
    \/ CallRegisterChecker
    \/ CallRegisterStandardMetrics
    \/ CallRegisterStandardCheckers

SpecRegistry == InitRegistry /\ [][NextRegistry]_vars

(***************************************************************************)
(* Properties of an evaluation (Spec).                                     *)
(***************************************************************************)
\* C1: checker isolation.  When exactly one checker raised in check(), the evaluation
\* completes with the same N entries, in the same order, as the evaluation in which no
\* checker raises; the entry of the failing metric has count 0 and every other entry,
\* those after the failing one included, is the one the fault-free evaluation computes.
C1_CheckerIsolation ==
    /\ (pc = "calculated" /\ Cardinality(raised) = 1) =>
          \E clean \in {calculate_metrics(registry, g, model, shacl, {}).results} :
              /\ Len(results) = Len(clean)
              /\ \A i \in 1..Len(results) :
                    IF results[i].id \in raised
                    THEN results[i].id = clean[i].id /\ results[i].count = 0
                    ELSE results[i] = clean[i]
    /\ (pc = "done" /\ Cardinality(raised) = 1) => report.metrics = results

\* a checker in the middle of the list raised, its entry has count 0 and a later metric
\* was evaluated on real data
C1_Witness ==
    /\ pc = "calculated"
    /\ Cardinality(raised) = 1
    /\ \E i \in 1..Len(results) : \E j \in 1..Len(results) :
          /\ i < j
          /\ results[i].id \in raised /\ results[i].count = 0
          /\ results[j].count > 0

\* C3: in every report, totalScore is the sum of the five dimension scores, each the
\* rounded integer of the points accumulated in that dimension.
C3_TotalIsSumOfRoundedDimensions ==
    pc = "done" =>
        /\ \A d \in Range(Dimensions) :
                report.dimensions[d] = Round(RawDimension(report.metrics, d))
        /\ report.totalScore =
                report.dimensions["findability"] + report.dimensions["accessibility"]
                + report.dimensions["interoperability"] + report.dimensions["reusability"]
                + report.dimensions["contextuality"]

\* a report whose total differs from the rounded sum of all raw points
C3_Witness ==
    /\ pc = "done"
    /\ report.totalScore #
            Round(FracSum([i \in 1..Len(report.metrics) |-> report.metrics[i].points]))

\* C5: for each profile the weights of its metrics add up, per dimension, to the declared
\* dimension maximum and, over all dimensions, to the declared total maximum; the same
\* holds of the metrics register_standard_metrics leaves in the registry.
C5_WeightsMatchDeclaredMaxima ==
    (pc = "metrics_registered" /\ model \in ProfileNames) =>
        \A list \in {METRICS_BY_PROFILE[model], get_all_metrics(registry)} :
            /\ \A d \in Range(Dimensions) :
                    SeqSum([i \in 1..Len(list) |->
                                IF list[i].dimension = d THEN list[i].weight ELSE 0])
                        = DIMENSION_MAX_SCORES[model][d]
            /\ SeqSum([i \in 1..Len(list) |-> list[i].weight]) = MAX_SCORES[model]

\* the nti_risp metrics have just been registered
C5_Witness ==
    /\ pc = "metrics_registered"
    /\ model = "nti_risp"
    /\ Len(registry.metrics) = Len(METRICS_BY_PROFILE["nti_risp"])

\* C7: when the graph has no Dataset-typed subject, every metric whose checker is bound to
\* the Dataset type is reported with count 0, population 0, percentage 0 and points 0.
C7_ZeroPopulation ==
    (pc = "calculated" /\ Subjects(g, "Dataset") = {}) =>
        \A i \in 1..Len(results) :
            (/\ results[i].id \in CheckerIds
             /\ CHECKER_DEFINITIONS[results[i].id].entity_types = <<"Dataset">>
             /\ results[i].id \notin raised)
            => /\ results[i].count = 0
               /\ results[i].population = 0
               /\ results[i].percentage = <<0, 1>>
               /\ results[i].points = <<0, 1>>

\* a graph of Distributions only, one of them carrying dct:accessRights, for which the
\* Dataset metric dct_accessRights was reported
C7_Witness ==
    /\ pc = "calculated"
    /\ Subjects(g, "Dataset") = {}
    /\ \E e \in Subjects(g, "Distribution") : HasProperty(g, e, "dct:accessRights")
    /\ \E i \in 1..Len(results) :
          results[i].id = "dct_accessRights" /\ results[i].population = 0

\* C9: get_checker returns the absent value for a metric without a checker, and the
\* evaluation then has no entry for that metric and an entry for every other metric that
\* passes the compliance filter: a missing checker ends nothing.
C9_MissingCheckerSkipped ==
    pc = "calculated" =>
        \A k \in 1..Len(registry.metrics) :
            LET id == registry.metrics[k].id
                reported == \E i \in 1..Len(results) : results[i].id = id
            IN  IF id \notin DOMAIN registry.checkers
                THEN get_checker(registry, id) = NoChecker /\ ~reported
                ELSE (id \notin ComplianceSuffixed \/ ComplianceDesignated(model, id))
                        => reported

\* an evaluation that skipped a metric for lack of a checker and reported a later one
C9_Witness ==
    /\ pc = "calculated"
    /\ \E k \in 1..Len(registry.metrics) : \E n \in 1..Len(registry.metrics) :
          /\ k < n
          /\ registry.metrics[k].id \notin DOMAIN registry.checkers
          /\ \E i \in 1..Len(results) : results[i].id = registry.metrics[n].id

\* C10: an evaluation whose model is none of the three profiles evaluates no metric and
\* produces no report.
C10_UnknownProfileFails ==
    model \notin ProfileNames => (results = <<>> /\ report = NoReport)

(***************************************************************************)
(* Properties of calculate_metrics called on its own (SpecCalc).           *)
(***************************************************************************)
\* C2: compliance mutual exclusion.  Whatever metrics and checkers the registry holds and
\* whatever the graph, the results of calculate_metrics for a profile contain no
\* compliance entry other than the one designated for that profile, and at most one
\* compliance entry.
C2_ComplianceMutualExclusion ==
    (pc = "calculated" /\ model \in ProfileNames) =>
        LET designated == CASE model = "dcat_ap" -> "dcat_ap_compliance"
                            [] model = "dcat_ap_es" -> "dcat_ap_es_compliance"
                            [] model = "nti_risp" -> "nti_risp_compliance"
        IN  /\ \A i \in 1..Len(results) :
                    results[i].id \in ComplianceSuffixed => results[i].id = designated
            /\ Cardinality({i \in 1..Len(results) : results[i].id \in ComplianceSuffixed}) <= 1

\* an nti_risp evaluation over a registry that holds dcat_ap_es_compliance and its checker
C2_Witness ==
    /\ pc = "calculated"
    /\ model = "nti_risp"
    /\ "dcat_ap_es_compliance" \in MetricIds(registry.metrics)
    /\ "dcat_ap_es_compliance" \in DOMAIN registry.checkers
    /\ Len(results) > 0
    /\ \A i \in 1..Len(results) : results[i].id # "dcat_ap_es_compliance"

(***************************************************************************)
(* Properties of one checker on one graph (SpecCheck).                     *)
(***************************************************************************)
\* C4: every result entry, whichever checker produced it, a checker that raised and a
\* population of 0 included, has 0 <= count <= population, a percentage between 0 and 1
\* that is count/population when population > 0 and 0 otherwise, and
\* points = percentage * weight.
C4_PercentageAndPoints ==
    pc = "checked" =>
        \A i \in 1..Len(results) :
            LET r == results[i]
            IN  /\ 0 <= r.count /\ r.count <= r.population
                /\ r.percentage = IF r.population > 0
                                  THEN Frac(r.count, r.population) ELSE <<0, 1>>
                /\ FracLeq(<<0, 1>>, r.percentage) /\ FracLeq(r.percentage, <<1, 1>>)
                /\ r.points[1] * r.percentage[2] = r.percentage[1] * r.weight * r.points[2]

\* the label checker of nti_risp on a graph with a labelled format URI and a second,
\* non-matching format value
C4_Witness ==
    /\ pc = "checked"
    /\ Len(results) = 1
    /\ results[1].id = "dct_format_vocabulary_nti_risp"
    /\ results[1].population = 2
    /\ results[1].count = 1
    /\ \E e \in Subjects(g, "Distribution") :
          <<"dct:format", Uri("http://x/ft/CSV", {"CSV"})>> \in g[e].pv

(***************************************************************************)
(* Properties of determine_rating (SpecRating).                            *)
(***************************************************************************)
\* C6: determine_rating returns the highest tier whose lower bound the total meets:
\* Excellent iff total >= excellent, Good iff good <= total < excellent, Sufficient iff
\* sufficient <= total < good, Bad iff total < sufficient.
C6_RatingTiers ==
    (pc = "rated" /\ model \in ProfileNames) =>
        LET thresholds == RATING_THRESHOLDS_BY_PROFILE[model]
            total == report.totalScore
        IN  /\ report.rating = "Excellent" <=> total >= thresholds.excellent
            /\ report.rating = "Good" <=>
                    (thresholds.good <= total /\ total < thresholds.excellent)
            /\ report.rating = "Sufficient" <=>
                    (thresholds.sufficient <= total /\ total < thresholds.good)
            /\ report.rating = "Bad" <=> total < thresholds.sufficient

\* a total equal to the excellent threshold of nti_risp, rated Excellent
C6_Witness ==
    /\ pc = "rated"
    /\ model = "nti_risp"
    /\ report.totalScore = RATING_THRESHOLDS_BY_PROFILE["nti_risp"].excellent
    /\ report.rating = "Excellent"

(***************************************************************************)
(* Properties of the MetricRegistry API (SpecRegistry).                    *)
(***************************************************************************)
\* C8: a register_checker call succeeds, binding the checker and leaving the metrics
\* alone, exactly when its id is among the registered metrics; otherwise it raises and
\* leaves the metrics map and the checkers map unchanged.
C8_RegisterCheckerNeedsMetric ==
    [][report'.call = "register_checker" =>
            IF report'.metric_id \in MetricIds(registry.metrics)
            THEN /\ error' = ""
                 /\ registry'.metrics = registry.metrics
                 /\ get_checker(registry', report'.metric_id) = report'.checker
                 /\ \A x \in DOMAIN registry.checkers \ {report'.metric_id} :
                        get_checker(registry', x) = get_checker(registry, x)
            ELSE /\ error' = "ValueError"
                 /\ registry' = registry]_vars

\* register_checker has just raised for an id that has a checker from the time its
\* metric was registered, the metrics having been replaced since
C8_Witness ==
    /\ pc = "api"
    /\ report.call = "register_checker"
    /\ error = "ValueError"
    /\ report.metric_id \notin MetricIds(registry.metrics)
    /\ report.metric_id \in DOMAIN registry.checkers


(***************************************************************************)
(* SHACLComplianceChecker.check on its own (SpecShacl): one run of check() *)
(* for every combination of what the updater, the shapes files, the        *)
(* fallback URL and the engine can do.                                     *)
(***************************************************************************)
\* Longest list of shapes files configured for a checker in the model
MaxShaclFiles == 2

ShaclFileLists == UNION {[1..n -> ShaclFileStatus] : n \in 0..MaxShaclFiles}

ShaclRuns ==
    {ShaclRun(u, f, fb, e) : u \in {"ok", "raises"}, f \in ShaclFileLists,
                             fb \in ShaclFallbackStatus, e \in ShaclEngineStatus}

InitShacl ==
    /\ registry = ImportedRegistry
    /\ pc = "shacl_start"
    /\ entry = "SHACLComplianceChecker.check"
    /\ model \in {"dcat_ap_es"}
    /\ source = [loadable |-> TRUE, graph |-> <<>>]
    /\ g = <<>>
    /\ shacl \in ShaclRuns
    /\ raised = {}
    /\ results = <<>>
    /\ report = [count |-> -1, population |-> -1]
    /\ error = ""
    /\ db = <<>>
    /\ VOCAB_CACHE = EmptyCache
    /\ http_log = <<>>

\* count, population = checker.check(g, resources, context)
RunShaclCheck ==
    /\ pc = "shacl_start"
    /\ \E out \in {SHACLComplianceChecker_outcome(shacl)} :
          IF out.kind = "raise"
          THEN /\ pc' = "shacl_raised"
               /\ UNCHANGED report
          ELSE /\ pc' = "shacl_checked"
               /\ report' = [count |-> out.value[1], population |-> out.value[2]]
    /\ UNCHANGED <<registry, entry, model, source, g, shacl, raised, results, error, db, VOCAB_CACHE, http_log>>

NextShacl == RunShaclCheck

SpecShacl == InitShacl /\ [][NextShacl]_vars

\* C11: SHACLComplianceChecker.check never raises and always reports a population of 1.
\* It returns (1, 1) exactly when at least one shapes source was loaded (a local file that
\* exists and parses, or else the fallback URL) and the engine reported conformance; in
\* every other case - the update failing, no shapes source loadable, non-conformance, the
\* engine raising - it returns (0, 1).
C11_ShaclAbsorbsEveryFailure ==
    pc # "shacl_start" =>
        /\ pc = "shacl_checked"
        /\ report.population = 1
        /\ report.count \in {0, 1}
        /\ report.count = 1 <=>
              /\ shacl.engine = "conforms"
              /\ \/ \E i \in 1..Len(shacl.files) : shacl.files[i] = "parsed"
                 \/ shacl.fallback = "parsed"

\* the update raised, no local file could be used, the fallback URL supplied the shapes
\* and the engine reported conformance: check() returned (1, 1)
C11_Witness ==
    /\ pc = "shacl_checked"
    /\ shacl.update = "raises"
    /\ Len(shacl.files) = 2
    /\ shacl.files[1] = "missing" /\ shacl.files[2] = "unparsable"
    /\ shacl.fallback = "parsed"
    /\ shacl.engine = "conforms"
    /\ report = [count |-> 1, population |-> 1]


(***************************************************************************)
(* Properties of the URL and vocabulary checkers (SpecCheck).              *)
(***************************************************************************)
\* the (entity, value) pairs a URL-status metric finds in the graph: the URI and literal
\* values of the property on the Distributions
UrlValuesFound(prop) ==
    {<<e, v>> \in (1..Len(g)) \X {t[2] : t \in CheckPool} :
        /\ e \in Subjects(g, "Distribution")
        /\ v \in Values(g, e, prop)
        /\ v.kind \in {"uri", "literal"}}

\* the probe of one URL value succeeded: HEAD or, failing that, GET answered 2xx
ProbeSucceeded(v) ==
    \/ Is2xx(HeadStatus(NormalizeUrl(v.text)))
    \/ Is2xx(GetStatus(NormalizeUrl(v.text)))

\* C12: EntityTypeURLStatusChecker.check returns (number of URL values whose probe
\* succeeded, number of URL values found).  A probe that fails marks only its own URL: it
\* neither raises out of check() nor changes the outcome of another URL; with no URL
\* value the result is (0, 0).
C12_UrlProbesIndependent ==
    pc = "checked" =>
        \A i \in 1..Len(results) :
            (results[i].id = "dcat_accessURL_status" /\ raised = {}) =>
                /\ results[i].population = Cardinality(UrlValuesFound("dcat:accessURL"))
                /\ results[i].count =
                      Cardinality({x \in UrlValuesFound("dcat:accessURL") : ProbeSucceeded(x[2])})

\* one Distribution with a reachable access URL and one whose requests both fail with a
\* connection error: (1, 2)
C12_Witness ==
    /\ pc = "checked"
    /\ raised = {}
    /\ Len(results) = 1
    /\ results[1].id = "dcat_accessURL_status"
    /\ results[1].count = 1 /\ results[1].population = 2
    /\ \E x \in UrlValuesFound("dcat:accessURL") : x[2].text = "http://a.example/file"
    /\ \E x \in UrlValuesFound("dcat:accessURL") :
          x[2].text = "http://b.example/file" /\ HeadStatus(x[2].text) = 0
                                              /\ GetStatus(x[2].text) = 0


\* the triples (resource, dct:format, value) of the Distributions, the candidate list the
\* loop hands to dct_format_vocabulary
FormatTriples ==
    {<<e, t>> \in (1..Len(g)) \X CheckPool :
        e \in Subjects(g, "Distribution") /\ t \in g[e].pv /\ t[1] = "dct:format"}

\* C13: for VocabularyComplianceChecker.check the population is the number of triples
\* (resource, p, value) with resource in the candidate list and p a configured property,
\* and the count is the number of those whose value is a URI of the allow-set; literals
\* and blank nodes are in the population only.
C13_VocabularyCounts ==
    pc = "checked" =>
        \A i \in 1..Len(results) :
            (results[i].id = "dct_format_vocabulary" /\ raised = {}) =>
                /\ results[i].population = Cardinality(FormatTriples)
                /\ results[i].count =
                      Cardinality({x \in FormatTriples :
                                      /\ x[2][2].kind = "uri"
                                      /\ x[2][2].text \in {"http://x/ft/CSV", "http://x/ft/XLS"}})

\* allow-set {CSV, XLS}; a Distribution whose formats are the URI CSV and the URI PDF,
\* which is outside the allow-set: (1, 2)
C13_Witness ==
    /\ pc = "checked"
    /\ raised = {}
    /\ Len(results) = 1
    /\ results[1].id = "dct_format_vocabulary"
    /\ results[1].count = 1 /\ results[1].population = 2
    /\ VocabUris("file_types") = {"http://x/ft/CSV", "http://x/ft/XLS"}
    /\ \E x \in FormatTriples : x[2][2] = Uri("http://x/ft/CSV", {"CSV"})
    /\ \E x \in FormatTriples : x[2][2] = Uri("http://x/ft/PDF", {"Csv"})


(***************************************************************************)
(* Load failures (Spec).                                                   *)
(***************************************************************************)
\* C14: when the source cannot be loaded - load_graph fails, or load_graph_from_content
\* meets an unsupported content type, unparsable content or an empty graph - the entry
\* point raises an error that carries the underlying reason, returns no report and runs
\* no checker, and the endpoint stores no report.
C14_LoadFailureStopsEvaluation ==
    (pc # "start" /\ (~source.loadable \/ (entry = "content" /\ source.graph = <<>>))) =>
        /\ pc \in {"failed", "http_400"}
        /\ Len(error) = 3
        /\ error[3] \in IF entry = "url" THEN {"request or parser error"}
                         ELSE IF source.loadable
                              THEN {"The parsed graph is empty. Please check your input."}
                              ELSE {"Unsupported content type", "parser error"}
        /\ report = NoReport
        /\ results = <<>> /\ raised = {} /\ shacl = "not_run"
        /\ registry = ImportedRegistry
        /\ VOCAB_CACHE = EmptyCache
        /\ db = <<>>

\* direct content that parses to an empty graph: the endpoint answered 400 with the
\* loader's message and stored nothing
C14_Witness ==
    /\ pc = "http_400"
    /\ entry = "content"
    /\ source.loadable /\ source.graph = <<>>
    /\ error = <<"Error validating content: ", "Error parsing content: ",
                  "The parsed graph is empty. Please check your input.">>
    /\ report = NoReport
    /\ db = <<>>


(***************************************************************************)
(* Two evaluations at the same time (SpecConcurrent).  Both run            *)
(* validate_metadata_quality on the same catalogue, each with its own      *)
(* profile; registry and VOCAB_CACHE are the module's globals, pc, model   *)
(* and results are per evaluation.  A step is one of the three calls an    *)
(* evaluation makes after loading the graph; no checker raises and the     *)
(* graph conforms, so that any difference comes from the other evaluation. *)
(***************************************************************************)
Evaluations == {"first", "second"}

InitConcurrent ==
    /\ registry = ImportedRegistry
    /\ pc = [i \in Evaluations |-> "loaded"]
    /\ entry = "url"
    /\ model \in {m \in [Evaluations -> ProfileNames] : m["first"] # m["second"]}
    /\ source \in {[loadable |-> TRUE, graph |-> gr] : gr \in CalcGraphs}
    /\ g = source.graph
    /\ shacl = "conforms"
    /\ raised = {}
    /\ results = [i \in Evaluations |-> <<>>]
    /\ report = NoReport
    /\ error = ""
    /\ db = <<>>
    /\ VOCAB_CACHE = EmptyCache
    /\ http_log = <<>>

\* register_standard_metrics(model) of one evaluation
ConcRegisterStandardMetrics ==
    \E i \in Evaluations :
        /\ pc[i] = "loaded"
        /\ registry' = register_standard_metrics(registry, model[i])
        /\ pc' = [pc EXCEPT ![i] = "metrics_registered"]
        /\ UNCHANGED <<entry, model, source, g, shacl, raised, results, report, error, db,
                       VOCAB_CACHE, http_log>>

\* register_standard_checkers(model) of one evaluation
ConcRegisterStandardCheckers ==
    \E i \in Evaluations :
        /\ pc[i] = "metrics_registered"
        /\ registry' = register_standard_checkers(registry, model[i])
        /\ VOCAB_CACHE' = CacheAfterCheckers(VOCAB_CACHE, model[i], i)
        /\ pc' = [pc EXCEPT ![i] = "checkers_registered"]
        /\ UNCHANGED <<entry, model, source, g, shacl, raised, results, report, error, db, http_log>>

\* metrics_results = calculate_metrics(g, shacl_level, model=model) of one evaluation
ConcCalculateMetrics ==
    \E i \in Evaluations :
        /\ pc[i] = "checkers_registered"
        /\ \E out \in {calculate_metrics(registry, g, model[i], shacl, {})} :
              results' = [results EXCEPT ![i] = out.results]
        /\ pc' = [pc EXCEPT ![i] = "calculated"]
        /\ UNCHANGED <<registry, entry, model, source, g, shacl, raised, report, error, db,
                       VOCAB_CACHE, http_log>>

NextConcurrent ==
    \/ ConcRegisterStandardMetrics
    \/ ConcRegisterStandardCheckers
    \/ ConcCalculateMetrics

SpecConcurrent == InitConcurrent /\ [][NextConcurrent]_vars

\* what an evaluation with profile m computes on graph gr when it runs alone
ResultsAlone(gr, m) ==
    calculate_metrics(RegistryAfter("url", m), gr, m, "conforms", {}).results

\* C15: no cross-call interference.  When two evaluations with different profiles run
\* concurrently, their register_standard_metrics / register_standard_checkers /
\* calculate_metrics steps interleaved in any order, each evaluation's results are
\* exactly the results it gets when it runs alone.
C15_NoCrossCallInterference ==
    \A i \in Evaluations :
        pc[i] = "calculated" => results[i] = ResultsAlone(g, model[i])


(***************************************************************************)
(* Checker constructions at the same time (SpecCache).  Each of two        *)
(* evaluations constructs a list of vocabulary checkers, as its            *)
(* register_standard_checkers does; the steps of a constructor are the     *)
(* test `key not in VOCAB_CACHE`, the build-and-store of a miss, and the   *)
(* read `self.allowed_uris = VOCAB_CACHE[key]`.                            *)
(***************************************************************************)
\* Longest list of checkers one evaluation constructs in the model
MaxConstructions == 2

\* the checkers of CHECKER_DEFINITIONS whose constructor consults the cache
CachedCheckers == {CHECKER_DEFINITIONS[id] : id \in {x \in CheckerIds : UsesCache(CHECKER_DEFINITIONS[x])}}

ConstructionLists == UNION {[1..n -> CachedCheckers] : n \in 1..MaxConstructions}

InitCache ==
    /\ registry = ImportedRegistry
    /\ pc = [i \in Evaluations |-> [k |-> 1, at |-> "test"]]
    /\ entry = "register_standard_checkers"
    /\ model = "none"
    /\ source \in [Evaluations -> ConstructionLists]
    /\ g = <<>>
    /\ shacl = "not_run"
    /\ raised = {}
    /\ results = [i \in Evaluations |-> <<>>]
    /\ report = NoReport
    /\ error = ""
    /\ db = <<>>
    /\ VOCAB_CACHE = EmptyCache
    /\ http_log = <<>>

\* if self.csv_path not in VOCAB_CACHE:
CacheTest ==
    \E i \in Evaluations :
        /\ pc[i].at = "test"
        /\ pc[i].k <= Len(source[i])
        /\ pc' = [pc EXCEPT ![i].at =
                    IF CacheKey(source[i][pc[i].k]) \in DOMAIN VOCAB_CACHE THEN "hit" ELSE "miss"]
        /\ UNCHANGED <<registry, entry, model, source, g, shacl, raised, results, report,
                       error, db, VOCAB_CACHE, http_log>>

\* the body of the if: read the CSV, then VOCAB_CACHE[self.csv_path] = allowed_uris
CacheBuildAndStore ==
    \E i \in Evaluations :
        /\ pc[i].at = "miss"
        /\ VOCAB_CACHE' = CacheStore(VOCAB_CACHE, CacheKey(source[i][pc[i].k]),
                                     BuildAllowed(source[i][pc[i].k]), i)
        /\ pc' = [pc EXCEPT ![i].at = "hit"]
        /\ UNCHANGED <<registry, entry, model, source, g, shacl, raised, results, report,
                       error, db, http_log>>

\* self.allowed_uris = VOCAB_CACHE[self.csv_path]; the next constructor follows
CacheAssign ==
    \E i \in Evaluations :
        /\ pc[i].at = "hit"
        /\ results' = [results EXCEPT
                          ![i] = Append(@, VOCAB_CACHE[CacheKey(source[i][pc[i].k])])]
        /\ pc' = [pc EXCEPT ![i] = [k |-> pc[i].k + 1, at |-> "test"]]
        /\ UNCHANGED <<registry, entry, model, source, g, shacl, raised, report, error, db,
                       VOCAB_CACHE, http_log>>

NextCache ==
    \/ CacheTest
    \/ CacheBuildAndStore
    \/ CacheAssign

SpecCache == InitCache /\ [][NextCache]_vars

\* C16: VOCAB_CACHE is write-once per source.  Over any sequence or interleaving of
\* checker constructions, two evaluations constructing checkers for the same vocabulary at
\* the same time included, an allow-set that has been stored for a key is never replaced
\* or changed: every step leaves every stored entry as it is.
C16_CacheWriteOnce ==
    [][\A key \in DOMAIN VOCAB_CACHE :
          key \in DOMAIN VOCAB_CACHE' /\ VOCAB_CACHE'[key] = VOCAB_CACHE[key]]_vars


(***************************************************************************)
(* Resource resolution (Spec).                                             *)
(***************************************************************************)
\* the universe a checker bound to entity types targets: the Datasets, the Distributions,
\* or both
TargetUniverse(c, datasets, distributions) ==
    IF Range(c.entity_types) = {"Dataset"} THEN datasets
    ELSE IF Range(c.entity_types) = {"Distribution"} THEN distributions
    ELSE datasets \o distributions

\* C17: resource resolution.  The candidate list calculate_metrics hands to each checker
\* is the universe the metric targets - the Datasets for a Dataset metric, the
\* Distributions for a Distribution metric, their union for a metric on both - with the
\* two universes computed once per evaluation.
C17_CandidatesAreTargetUniverse ==
    pc = "calculated" =>
        \A i \in 1..Len(results) :
            LET checker == get_checker(registry, results[i].id)
                datasets == SeqOfSet(Subjects(g, "Dataset"))
                distributions == SeqOfSet(Subjects(g, "Distribution"))
            IN  checker.entity_types # <<>> =>
                    ResourcesToCheck(results[i].id, checker, datasets, distributions)
                        = TargetUniverse(checker, datasets, distributions)


(***************************************************************************)
(* The report repository (SpecStore): any sequence of insert_report calls  *)
(* with get_latest_report calls in between.                                *)
(***************************************************************************)
\* Most reports inserted into the table in the model
MaxReports == 3

StoreUrls == {"https://example.com/catalog.ttl", "https://other.example/catalog.ttl"}

\* values of "created", in YYYY-MM-DD format
StoreDates == {"2025-01-01", "2025-02-01"}

\* the order of the date strings under Python's string comparison
DateLess(a, b) == a = "2025-01-01" /\ b = "2025-02-01"

StoreReports ==
    {[source |-> u, totalScore |-> t, rating |-> "Good",
      dimensions |-> DimMax(80, 70, 60, 50, 20), metrics |-> <<>>] :
        u \in StoreUrls, t \in {280, 281}}

\* self.db.search(Report.source == url): the matching documents with their doc_id, in
\* table order
Search(table, url) ==
    SelectSeq([i \in 1..Len(table) |-> [doc_id |-> i, doc |-> table[i]]],
              LAMBDA d : d.doc.source = url)

RECURSIVE InsertDescending(_, _)
\* one step of the stable sort with reverse=True: x goes behind every element whose key
\* is not smaller, so that equal keys keep their original order
InsertDescending(sorted, x) ==
    IF sorted = <<>> THEN <<x>>
    ELSE IF DateLess(Head(sorted).doc.created, x.doc.created)
         THEN <<x>> \o sorted
         ELSE <<Head(sorted)>> \o InsertDescending(Tail(sorted), x)

RECURSIVE SortedByCreatedDescending(_)
\* sorted(reports, key=lambda x: x['created'], reverse=True)
SortedByCreatedDescending(reports) ==
    IF reports = <<>> THEN <<>>
    ELSE InsertDescending(SortedByCreatedDescending(SubSeq(reports, 1, Len(reports) - 1)),
                          reports[Len(reports)])

NoDocument == [doc_id |-> 0]

\* TinyDBRepository.get_latest_report
get_latest_report(table, url) ==
    LET reports == Search(table, url)
    IN  IF reports = <<>> THEN NoDocument
        ELSE SortedByCreatedDescending(reports)[1]

InitStore ==
    /\ registry = ImportedRegistry
    /\ pc = "repository"
    /\ entry = "none"
    /\ model = "none"
    /\ source = "none"
    /\ g = <<>>
    /\ shacl = "not_run"
    /\ raised = {}
    /\ results = <<>>
    /\ report = NoDocument
    /\ error = ""
    /\ db = <<>>
    /\ VOCAB_CACHE = EmptyCache
    /\ http_log = <<>>

\* repo.insert_report(report_data)
CallInsertReport ==
    /\ Len(db) < MaxReports
    /\ \E rep \in StoreReports, created \in StoreDates :
          db' = insert_report(db, rep, created)
    /\ entry' = "insert_report"
    /\ UNCHANGED <<registry, pc, model, source, g, shacl, raised, results, report, error,
                   VOCAB_CACHE, http_log>>

\* repo.get_latest_report(url)
CallGetLatestReport ==
    /\ \E url \in StoreUrls :
          /\ source' = url
          /\ report' = get_latest_report(db, url)
    /\ entry' = "get_latest_report"
    /\ UNCHANGED <<registry, pc, model, g, shacl, raised, results, error, db, VOCAB_CACHE, http_log>>

NextStore ==
    \/ CallInsertReport
    \/ CallGetLatestReport

SpecStore == InitStore /\ [][NextStore]_vars

\* C18: after any sequence of insert_report calls, get_latest_report(url) returns the most
\* recent report stored for url - no other stored report with that source has a later
\* creation date or, for the same date, was inserted later - and None when none is stored.
C18_LatestIsMostRecent ==
    entry = "get_latest_report" =>
        IF \A j \in 1..Len(db) : db[j].source # source
        THEN report = NoDocument
        ELSE /\ report.doc_id \in 1..Len(db)
             /\ report.doc = db[report.doc_id]
             /\ report.doc.source = source
             /\ \A j \in 1..Len(db) :
                    db[j].source = source =>
                        /\ ~DateLess(report.doc.created, db[j].created)
                        /\ ~(db[j].created = report.doc.created /\ j > report.doc_id)


(***************************************************************************)
(* calculate_dimension_scores on its own (SpecRound): lists of metric      *)
(* results whose points are small fractions, ties included.                *)
(***************************************************************************)
\* Largest numerator of the points of one metric result in the model
MaxPointsNumerator == 9

\* Longest list of metric results handed to calculate_dimension_scores in the model
MaxRounded == 2

RoundPoints == {Frac(n, d) : n \in 0..MaxPointsNumerator, d \in {1, 2, 3}}

RoundEntries ==
    {[id |-> "metric", dimension |-> d, points |-> pt] :
        d \in {"findability", "accessibility"}, pt \in RoundPoints}

InitRound ==
    /\ registry = ImportedRegistry
    /\ pc = "round_start"
    /\ entry = "calculate_dimension_scores"
    /\ model = "none"
    /\ source = "none"
    /\ g = <<>>
    /\ shacl = "not_run"
    /\ raised = {}
    /\ results \in UNION {[1..n -> RoundEntries] : n \in 1..MaxRounded}
    /\ report = NoReport
    /\ error = ""
    /\ db = <<>>
    /\ VOCAB_CACHE = EmptyCache
    /\ http_log = <<>>

\* dimension_scores = calculate_dimension_scores(metrics)
CalculateDimensionScores ==
    /\ pc = "round_start"
    /\ report' = [dimensions |-> calculate_dimension_scores(results)]
    /\ pc' = "rounded"
    /\ UNCHANGED <<registry, entry, model, source, g, shacl, raised, results, error, db,
                   VOCAB_CACHE, http_log>>

NextRound == CalculateDimensionScores

SpecRound == InitRound /\ [][NextRound]_vars

\* twice the distance between the integer score and the raw value num/den, times den
TwiceDistance(score, raw) ==
    IF 2 * score * raw[2] >= 2 * raw[1]
    THEN 2 * score * raw[2] - 2 * raw[1]
    ELSE 2 * raw[1] - 2 * score * raw[2]

\* C19: calculate_dimension_scores rounds the points accumulated in each dimension to the
\* nearest integer, a value exactly halfway between two integers going to the even one
\* (2.5 to 2, 3.5 to 4).
C19_RoundHalfToEven ==
    pc = "rounded" =>
        \A d \in Range(Dimensions) :
            LET raw == RawDimension(results, d)
                score == report.dimensions[d]
            IN  /\ TwiceDistance(score, raw) <= raw[2]
                /\ TwiceDistance(score, raw) = raw[2] => score % 2 = 0

\* findability accumulated 2.5 and was scored 2, accessibility accumulated 3.5 and was
\* scored 4
C19_Witness ==
    /\ pc = "rounded"
    /\ RawDimension(results, "findability") = <<5, 2>>
    /\ report.dimensions["findability"] = 2
    /\ RawDimension(results, "accessibility") = <<7, 2>>
    /\ report.dimensions["accessibility"] = 4


(***************************************************************************)
(* Failed checks (Spec).                                                   *)
(***************************************************************************)
\* the candidate list calculate_metrics resolved for the metric of entry i
CandidatesOf(i) ==
    ResourcesToCheck(results[i].id, get_checker(registry, results[i].id),
                     SeqOfSet(Subjects(g, "Dataset")), SeqOfSet(Subjects(g, "Distribution")))

\* C20: when checker.check raises in calculate_metrics, the entry of the metric has
\* count 0 and population max(1, size of the candidate list), hence percentage 0 and
\* points 0; the population of a failed check is never 0.
C20_FailedCheckPopulation ==
    pc = "calculated" =>
        \A i \in 1..Len(results) :
            results[i].id \in raised =>
                /\ results[i].count = 0
                /\ results[i].population =
                      IF Len(CandidatesOf(i)) >= 1 THEN Len(CandidatesOf(i)) ELSE 1
                /\ results[i].population >= 1
                /\ results[i].percentage = <<0, 1>>
                /\ results[i].points = <<0, 1>>

\* a checker raised on an empty candidate list and its entry has population 1
C20_Witness ==
    /\ pc = "calculated"
    /\ \E i \in 1..Len(results) :
          /\ results[i].id \in raised
          /\ CandidatesOf(i) = <<>>
          /\ results[i].count = 0 /\ results[i].population = 1


(***************************************************************************)
(* The probe of one URL (SpecProbe): helpers.check_url_status and one pass *)
(* of the probing loop of EntityTypeURLStatusChecker.check, with the       *)
(* requests they issue recorded in http_log.  The server answers a         *)
(* request with a 2xx status ("2xx"), another status ("other"), a failed   *)
(* certificate verification ("ssl_error", verified requests only) or any   *)
(* other exception ("error").                                              *)
(***************************************************************************)
VerifiedAnswers == {"2xx", "other", "ssl_error", "error"}
UnverifiedAnswers == {"2xx", "other", "error"}

\* what the server of the URL answers to each kind of request
ProbeServers ==
    [HEAD : [verified : VerifiedAnswers, unverified : UnverifiedAnswers],
     GET : [verified : VerifiedAnswers, unverified : UnverifiedAnswers]]

\* requests.head / requests.get (url, verify=verify): the request and its answer
Request(method, verify) == [method |-> method, verify |-> verify]
Answer(server, method, verify) ==
    IF verify THEN server[method].verified ELSE server[method].unverified

\* the outcome of a probe: the requests it issued and whether it found the URL reachable
Probe(log, reachable) == [log |-> log, reachable |-> reachable]

\* helpers.check_url_status, second inner try: the GET request and its SSLError handler
check_url_status_get(server, log, verify, allow_insecure) ==
    LET first == Answer(server, "GET", verify)
        log1 == Append(log, Request("GET", verify))
    IN  CASE first = "2xx" -> Probe(log1, TRUE)
          [] first = "other" -> Probe(log1, FALSE)
          [] first = "ssl_error" ->
                IF allow_insecure
                THEN Probe(Append(log1, Request("GET", FALSE)),
                           Answer(server, "GET", FALSE) = "2xx")
                ELSE Probe(log1, FALSE)
          [] OTHER -> Probe(log1, FALSE)

\* helpers.check_url_status: HEAD, its SSLError handler, then GET; an exception raised
\* inside a handler leaves through the outer except, which returns False
check_url_status(server, verify, allow_insecure) ==
    LET first == Answer(server, "HEAD", verify)
        log1 == <<Request("HEAD", verify)>>
        log2 == Append(log1, Request("HEAD", FALSE))
    IN  CASE first = "2xx" -> Probe(log1, TRUE)
          [] first = "ssl_error" ->
                IF allow_insecure
                THEN CASE Answer(server, "HEAD", FALSE) = "2xx" -> Probe(log2, TRUE)
                       [] Answer(server, "HEAD", FALSE) = "error" -> Probe(log2, FALSE)
                       [] OTHER -> check_url_status_get(server, log2, verify, allow_insecure)
                ELSE Probe(log1, FALSE)
          [] OTHER -> check_url_status_get(server, log1, verify, allow_insecure)

\* verify_ssl = not ALLOW_INSECURE_URLS if ALLOW_INSECURE_URLS else SSL_VERIFY
verify_ssl(SSL_VERIFY, ALLOW_INSECURE_URLS) ==
    IF ALLOW_INSECURE_URLS THEN ~ALLOW_INSECURE_URLS ELSE SSL_VERIFY

\* EntityTypeURLStatusChecker.check, one pass of the probing loop: HEAD, and GET when
\* HEAD raised or was not 2xx, both with verify=verify_ssl
ProbeInChecker(server, verify) ==
    IF Answer(server, "HEAD", verify) = "2xx"
    THEN Probe(<<Request("HEAD", verify)>>, TRUE)
    ELSE Probe(<<Request("HEAD", verify), Request("GET", verify)>>,
               Answer(server, "GET", verify) = "2xx")

InitProbe ==
    /\ registry = ImportedRegistry
    /\ pc = "probe_start"
    /\ entry \in [SSL_VERIFY : BOOLEAN, ALLOW_INSECURE_URLS : BOOLEAN]
    /\ model = "none"
    /\ source \in ProbeServers
    /\ g = <<>>
    /\ shacl = "not_run"
    /\ raised = {}
    /\ results = <<>>
    /\ report = NoReport
    /\ error = ""
    /\ db = <<>>
    /\ VOCAB_CACHE = EmptyCache
    /\ http_log = <<>>

\* check_url_status(url, allow_insecure=ALLOW_INSECURE_URLS), verify left at its default
CallCheckUrlStatus ==
    /\ pc = "probe_start"
    /\ \E out \in {check_url_status(source, TRUE, entry.ALLOW_INSECURE_URLS)} :
          /\ http_log' = out.log
          /\ report' = [reachable |-> out.reachable]
    /\ pc' = "helper_returned"
    /\ UNCHANGED <<registry, entry, model, source, g, shacl, raised, results, error, db,
                   VOCAB_CACHE>>

\* one URL of urls_to_check in EntityTypeURLStatusChecker.check
ProbeUrlInChecker ==
    /\ pc = "probe_start"
    /\ \E out \in {ProbeInChecker(source,
                                   verify_ssl(entry.SSL_VERIFY, entry.ALLOW_INSECURE_URLS))} :
          /\ http_log' = out.log
          /\ report' = [reachable |-> out.reachable]
    /\ pc' = "checker_probed"
    /\ UNCHANGED <<registry, entry, model, source, g, shacl, raised, results, error, db,
                   VOCAB_CACHE>>

NextProbe ==
    \/ CallCheckUrlStatus
    \/ ProbeUrlInChecker

SpecProbe == InitProbe /\ [][NextProbe]_vars

\* the answer the server gave to the i-th request of the log
AnswerTo(i) == Answer(source, http_log[i].method, http_log[i].verify)

\* C21: probe ordering, in check_url_status and in EntityTypeURLStatusChecker.check: the
\* first request is a HEAD; a GET is issued if and only if the HEAD attempt raised (any
\* error, a certificate error included) or answered outside [200, 300); the URL is
\* reachable iff one of the requests answered 2xx; no GET follows a 2xx HEAD.
C21_HeadThenGet ==
    pc \in {"helper_returned", "checker_probed"} =>
        /\ http_log[1].method = "HEAD"
        /\ (\E i \in 1..Len(http_log) : http_log[i].method = "GET") <=> AnswerTo(1) # "2xx"
        /\ report.reachable <=> \E i \in 1..Len(http_log) : AnswerTo(i) = "2xx"
        /\ \A i \in 1..Len(http_log), j \in 1..Len(http_log) :
              (i < j /\ http_log[i].method = "HEAD" /\ AnswerTo(i) = "2xx")
                  => http_log[j].method # "GET"

\* C22: TLS downgrade.  A request with certificate verification disabled is issued only
\* after a verified request failed certificate verification and with the allow-insecure
\* flag enabled; with the flag disabled no unverified request is issued, and with the flag
\* enabled the first request is still verified.
C22_UnverifiedOnlyAfterCertificateFailure ==
    pc \in {"helper_returned", "checker_probed"} =>
        /\ http_log[1].verify
        /\ \A i \in 1..Len(http_log) :
              ~http_log[i].verify =>
                  /\ entry.ALLOW_INSECURE_URLS
                  /\ \E j \in 1..(i - 1) : http_log[j].verify /\ AnswerTo(j) = "ssl_error"

(***************************************************************************)
(* The label checker of nti_risp on graphs of labelled format values       *)
(* (SpecLabel): the loop body of calculate_metrics on Distributions whose  *)
(* dct:format values carry, or lack, label triples.                        *)
(***************************************************************************)
\* format values: a URI with a label outside the allow-set whose text holds "csv", a URI
\* without label triples whose text holds "csv", a URI with an allowed label, a URI with a
\* label outside the allow-set and no allowed text, a labelled blank node, a literal
LabelPool == {
    <<"dct:format", Uri("http://x/ft/CSV", {"Comma"})>>,
    <<"dct:format", Uri("http://x/mt/text-csv", {})>>,
    <<"dct:format", Uri("http://x/ft/PDF", {"Csv"})>>,
    <<"dct:format", Uri("http://x/ft/XLS", {"Comma"})>>,
    <<"dct:format", BNode("b1", {"Excel XLS"})>>,
    <<"dct:format", Lit("CSV")>> }

LabelShapes ==
    ListOfSet({Node({"Distribution"}, pv) : pv \in SubsetsUpTo(LabelPool, MaxTriples)}
              \cup {Node({"Dataset"}, {})})

LabelGraphs ==
    UNION {
        {[i \in 1..n |-> LabelShapes[f[i]]] :
            f \in {h \in [1..n -> 1..Len(LabelShapes)] :
                        \A i \in 1..n, j \in 1..n : i <= j => h[i] <= h[j]}}
        : n \in 0..MaxRes}

InitLabel ==
    /\ model = "nti_risp"
    /\ registry = RegistryAfter("url", model)
    /\ pc = "check_start"
    /\ entry = "check"
    /\ source \in {[loadable |-> TRUE, graph |-> gr] : gr \in LabelGraphs}
    /\ g = source.graph
    /\ shacl = "not_run"
    /\ raised = {}
    /\ results = <<>>
    /\ report = NoReport
    /\ error = ""
    /\ db = <<>>
    /\ VOCAB_CACHE = CacheAfterCheckers(EmptyCache, model, "url")
    /\ http_log = <<>>

SpecLabel == InitLabel /\ [][NextCheck]_vars

\* the triples (resource, dct:format, value) of the Distributions
LabelTriples ==
    {<<e, t>> \in (1..Len(g)) \X LabelPool :
        e \in Subjects(g, "Distribution") /\ t \in g[e].pv /\ t[1] = "dct:format"}

\* C23: for VocabularyLabelComplianceChecker_NTI.check a URI value is compliant when one
\* of its label triples, lower-cased, is in the label allow-set; the substring test against
\* the URI text is tried only when the value has no label triple at all, so a URI with
\* label triples none of which is in the allow-set is non-compliant whatever its text.
C23_LabelledUriNeedsAllowedLabel ==
    pc = "checked" =>
        \A i \in 1..Len(results) :
            (results[i].id = "dct_format_vocabulary_nti_risp" /\ raised = {}) =>
                LET allowed_labels == AllowedLabels("file_types")
                    labelled(v) == \E l \in v.labels : Lower(l) \in allowed_labels
                    compliant(v) ==
                        CASE v.kind = "uri" ->
                                \/ labelled(v)
                                \/ /\ v.labels = {}
                                   /\ \E l \in allowed_labels : IsSubstring(l, Lower(v.text))
                          [] v.kind = "bnode" -> labelled(v)
                          [] v.kind = "literal" -> Lower(v.text) \in allowed_labels
                IN  /\ results[i].population = Cardinality(LabelTriples)
                    /\ results[i].count =
                          Cardinality({x \in LabelTriples : compliant(x[2][2])})

(***************************************************************************)
(* The entity-type checkers on graphs whose resources have one or both of  *)
(* the types Dataset and Distribution (SpecTypes): the loop body of        *)
(* calculate_metrics for one metric of the profile.                        *)
(***************************************************************************)
TypesPool == {
    <<"dct:issued", Lit("2020-01-01")>>,
    <<"dct:modified", Lit("2021-01-01")>>,
    <<"dct:accessRights", ArPublic>>,
    <<"dct:format", Lit("CSV")>> }

TypesShapes ==
    ListOfSet({Node(ts, pv) : ts \in {{"Dataset"}, {"Distribution"}, {"Dataset", "Distribution"}},
                              pv \in SubsetsUpTo(TypesPool, MaxTriples)})

TypesGraphs ==
    UNION {
        {[i \in 1..n |-> TypesShapes[f[i]]] :
            f \in {h \in [1..n -> 1..Len(TypesShapes)] :
                        \A i \in 1..n, j \in 1..n : i <= j => h[i] <= h[j]}}
        : n \in 0..MaxRes}

InitTypes ==
    /\ model \in ProfileNames
    /\ registry = RegistryAfter("url", model)
    /\ pc = "check_start"
    /\ entry = "check"
    /\ source \in {[loadable |-> TRUE, graph |-> gr] : gr \in TypesGraphs}
    /\ g = source.graph
    /\ shacl = "not_run"
    /\ raised = {}
    /\ results = <<>>
    /\ report = NoReport
    /\ error = ""
    /\ db = <<>>
    /\ VOCAB_CACHE = CacheAfterCheckers(EmptyCache, model, "url")
    /\ http_log = <<>>

SpecTypes == InitTypes /\ [][NextCheck]_vars

\* the class and the constructor arguments of the checker bound to a metric id
BoundChecker(id) == get_checker(registry, id)

C25_MultipleTypesSumPerType ==
    pc = "checked" =>
        \A i \in 1..Len(results) :
            (/\ results[i].id \notin raised
             /\ results[i].id \in DOMAIN registry.checkers
             /\ BoundChecker(results[i].id).cls = "MultipleEntityTypesPropertyChecker") =>
                LET c == BoundChecker(results[i].id)
                    configured == {c.entity_types[k] : k \in 1..Len(c.entity_types)}
                    typings == {x \in (1..Len(g)) \X configured : x[2] \in g[x[1]].types}
                IN  /\ results[i].population = Cardinality(typings)
                    /\ results[i].count =
                          Cardinality({x \in typings :
                                \E t \in g[x[1]].pv : t[1] = c.property_uris[1]})

\* one resource that is both a Dataset and a Distribution and has dct:issued: (2, 2)
C25_Witness ==
    /\ pc = "checked"
    /\ raised = {}
    /\ Len(results) = 1
    /\ results[1].id = "dct_issued"
    /\ Len(g) = 1
    /\ g[1].types = {"Dataset", "Distribution"}
    /\ <<"dct:issued", Lit("2020-01-01")>> \in g[1].pv
    /\ results[1].count = 2 /\ results[1].population = 2

(***************************************************************************)
(* The two entry points side by side (Spec).                               *)
(***************************************************************************)
\* C26: for the same graph, the same profile and the same answers of the environment,
\* validate_metadata_from_content produces the metric list, the dimension scores, the
\* total score and the rating that validate_metadata_quality produces; the two reports
\* differ in the source identifier only.
C26_EntryPointsAgree ==
    (pc = "done" /\ entry = "content" /\ model \in ProfileNames) =>
        \E by_url \in {calculate_metrics(RegistryAfter("url", model), g, model, shacl, raised)} :
        \E scores \in {Scores(by_url.results)} :
            /\ report.metrics = by_url.results
            /\ report.dimensions = scores.dimensions
            /\ report.totalScore = scores.totalScore
            /\ report.rating = determine_rating(scores.totalScore, model)

(***************************************************************************)
(* Consistency of the registry (SpecRegistry).                             *)
(***************************************************************************)
\* C27: in every state the registry can reach - after the import and after any sequence
\* of register_standard_metrics, register_standard_checkers, register_metric and
\* register_checker, the state between the two registration steps of an evaluation that
\* switches profile included - every metric id that has a checker bound is a registered
\* metric.
C27_BoundCheckersAreRegistered ==
    DOMAIN registry.checkers \subseteq MetricIds(registry.metrics)

(***************************************************************************)
(* From the metric results to the stored report (SpecScores): the entry    *)
(* point after calculate_metrics returned, for results whose counts range  *)
(* over the outcomes a checker can give, then the endpoint's insert.       *)
(***************************************************************************)
\* how many entries of a result list depart from the common (count, population)
MaxDeviating == 2

\* (count, population) pairs a checker can return
CountPairs == {<<0, 0>>, <<1, 3>>, <<1, 2>>, <<1, 1>>}

\* the result lists of one evaluation: one entry per metric the loop evaluates for this
\* entry point and profile, all with the same (count, population) but at most MaxDeviating
ScoreResults(e, m) ==
    LET evaluated == calculate_metrics(RegistryAfter(e, m), <<>>, m, "conforms", {}).results
        n == Len(evaluated)
        metric(i) == Metric(evaluated[i].id, evaluated[i].dimension, evaluated[i].weight)
    IN  {[i \in 1..n |-> MetricResult(metric(i), IF i \in DOMAIN dev THEN dev[i] ELSE common)] :
            common \in {<<0, 1>>, <<1, 1>>},
            dev \in UNION {[S -> CountPairs] : S \in SubsetsUpTo(1..n, MaxDeviating)}}

\* the evaluation has loaded a graph, registered the profile and run the loop; the steps
\* that follow read the results only
InitScores ==
    /\ entry \in Entries
    /\ model \in ProfileNames
    /\ registry = RegistryAfter(entry, model)
    /\ pc = "calculated"
    /\ source = [loadable |-> TRUE, graph |-> <<Node({"Dataset"}, {})>>]
    /\ g = source.graph
    /\ shacl = "conforms"
    /\ raised = {}
    /\ results \in ScoreResults(entry, model)
    /\ report = NoReport
    /\ error = ""
    /\ db = <<>>
    /\ VOCAB_CACHE = CacheAfterCheckers(EmptyCache, CheckersProfile(entry, model), entry)
    /\ http_log = <<>>

NextScores ==
    \/ AssembleReport
    \/ EndpointStoresReport

SpecScores == InitScores /\ [][NextScores]_vars

\* C28: every dimension score of a report is an integer between 0 and the maximum the
\* profile declares for that dimension, and totalScore is between 0 and the profile's
\* declared total (405, 405, 310); so the report passes the bounds of QualityReport and
\* DimensionScores and insert_report stores it.
C28_ScoresWithinDeclaredMaxima ==
    /\ pc \in {"done", "stored"} =>
          /\ \A d \in Range(Dimensions) :
                report.dimensions[d] \in 0..DIMENSION_MAX_SCORES[model][d]
          /\ report.totalScore \in 0..MAX_SCORES[model]
          /\ QualityReport_valid(report)
    /\ pc # "http_400"
    /\ pc = "stored" => Len(db) = 1

\* an nti_risp report in which every metric has all its points: each dimension and the
\* total are at their declared maxima, and the report has been stored
C28_Witness ==
    /\ pc = "stored"
    /\ model = "nti_risp"
    /\ entry = "url"
    /\ report.dimensions = DIMENSION_MAX_SCORES["nti_risp"]
    /\ report.totalScore = 310
    /\ Len(db) = 1 /\ db[1].totalScore = 310

(***************************************************************************)
(* The thresholds determine_rating applies and those of the configuration  *)
(* (SpecRating).                                                           *)
(***************************************************************************)
\* C29: the thresholds determine_rating applies to a profile are the ones the
\* configuration declares for it - 351/221/121 for dcat_ap and dcat_ap_es, 264/166/91 for
\* nti_risp - and each of them is at most the profile's declared maximum total.
C29_ThresholdsAreConfigured ==
    (pc = "rated" /\ model \in ProfileNames) =>
        LET declared == ConfigRATING_THRESHOLDS_BY_PROFILE[model]
            total == report.totalScore
        IN  /\ declared = IF model = "nti_risp" THEN Thresholds(264, 166, 91)
                          ELSE Thresholds(351, 221, 121)
            /\ declared.excellent <= MAX_SCORES[model]
            /\ declared.good <= MAX_SCORES[model]
            /\ declared.sufficient <= MAX_SCORES[model]
            /\ report.rating = (IF total >= declared.excellent THEN "Excellent"
                                ELSE IF total >= declared.good THEN "Good"
                                ELSE IF total >= declared.sufficient THEN "Sufficient"
                                ELSE "Bad")

(***************************************************************************)
(* A report of an evaluation, stored and read back (Spec).                 *)
(***************************************************************************)
\* TinyDBRepository.get_history: the documents of the source, in table order
get_history(table, url) ==
    LET reports == Search(table, url)
    IN  [i \in 1..Len(reports) |-> reports[i].doc]

\* C30: a report that an evaluation produced and insert_report stored comes back from
\* get_latest_report and from get_history with every field as the evaluation wrote it:
\* source, created, the profile name in "model", totalScore, rating, dimensions, metrics.
C30_StoredReportKeepsEveryField ==
    pc = "stored" =>
        \A returned \in {get_latest_report(db, report.source).doc}
                        \cup Range(get_history(db, report.source)) :
            /\ returned.source = report.source
            /\ returned.created = Today
            /\ returned.totalScore = report.totalScore
            /\ returned.rating = report.rating
            /\ returned.dimensions = report.dimensions
            /\ returned.metrics = report.metrics
            /\ "model" \in DOMAIN returned
            /\ returned.model = report.model

====
